---- MODULE Spec2Model ----
(***************************************************************************)
(* In-memory zone finder of the authoritative server                      *)
(* (src/lib/datasrc/memory/zone_finder.cc): find(), findAll() and the     *)
(* helpers they call, over a labelled zone tree.                          *)
(*                                                                         *)
(* A name is a sequence of labels written from the top of the hierarchy   *)
(* down: b.a.example. is <<"example", "a", "b">>.  A tree node is         *)
(* identified by its absolute name.                                       *)
(***************************************************************************)
EXTENDS Integers, Sequences, FiniteSets, TLC

(***************************************************************************)
(* Bounds                                                                  *)
(***************************************************************************)
\* Largest number of labels a query name has below the zone origin.
MaxDepth == 3

(***************************************************************************)
(* Names and labels                                                        *)
(***************************************************************************)
Labels == {"*", "a", "b"}

\* Canonical (case-folded byte) order of the labels in use.
LabelOrd(l) ==
    CASE l = "*" -> 1
      [] l = "a" -> 2
      [] l = "b" -> 3
      [] OTHER   -> 4

Origin == <<"example">>

NULL == <<>>

\* What an uninitialised pointer can hold besides NULL or a valid node.
GARBAGE == <<"?">>

IsPrefix(a, b) == Len(a) <= Len(b) /\ SubSeq(b, 1, Len(a)) = a

\* NameComparisonResult relation of name q against name n (absolute names).
Relation(q, n) ==
    IF q = n THEN "EQUAL"
    ELSE IF IsPrefix(n, q) THEN "SUBDOMAIN"
    ELSE IF IsPrefix(q, n) THEN "SUPERDOMAIN"
    ELSE "COMMONANCESTOR"

\* Number of leading labels two names share.
RECURSIVE CommonLen(_, _)
CommonLen(a, b) ==
    IF a = <<>> \/ b = <<>> \/ Head(a) # Head(b) THEN 0
    ELSE 1 + CommonLen(Tail(a), Tail(b))

\* Canonical DNS order: an ancestor sorts before its descendants, siblings
\* sort by label.
NameLess(a, b) ==
    LET k == CommonLen(a, b) IN
    IF k = Len(a) THEN k < Len(b)
    ELSE IF k = Len(b) THEN FALSE
    ELSE LabelOrd(a[k + 1]) < LabelOrd(b[k + 1])

RECURSIVE SeqsUpTo(_, _)
SeqsUpTo(S, n) ==
    IF n = 0 THEN {<<>>}
    ELSE LET P == SeqsUpTo(S, n - 1) IN
         P \cup {Append(p, l) : p \in {x \in P : Len(x) = n - 1}, l \in S}

\* Query names: every name of at most MaxDepth labels below the origin, and
\* names outside the zone (the root, a sibling zone, a name below it).
QueryNames ==
    {Origin \o s : s \in SeqsUpTo(Labels, MaxDepth)}
        \cup {<<>>, <<"other">>, <<"other", "a">>}

(***************************************************************************)
(* Zone data.  The zone tree and the loader that fills it are not part of  *)
(* zone_finder.cc; they are modelled from their documented contracts.      *)
(***************************************************************************)
RRTypes == {"A", "NS", "DS", "CNAME", "DNAME", "NSEC", "MX"}

\* Zone contents, one sequence of <<name, type>> per zone.  Names are relative
\* to the origin, top label first: <<>> is the apex, <<"a", "b">> is b.a.
ZoneBasic ==      \* exact matches, a CNAME, an empty non-terminal (a.a)
    << <<<<>>, "NS">>, <<<<"a">>, "A">>, <<<<"a", "a", "b">>, "A">>,
       <<<<"b">>, "CNAME">> >>
ZoneWild ==       \* *.a and an empty non-terminal (a.a) below a
    << <<<<>>, "NS">>, <<<<"a", "*">>, "A">>, <<<<"a", "a", "b">>, "A">> >>
ZoneWildSplit ==  \* *.a (a CNAME) and an empty node a.a of its own below a
    << <<<<>>, "NS">>, <<<<"a", "*">>, "CNAME">>, <<<<"a", "a", "a">>, "A">>,
       <<<<"a", "a", "b">>, "A">>, <<<<"b">>, "CNAME">>, <<<<"b">>, "A">> >>
ZoneWildReal ==   \* *.a beside b.a; *.b exists only as the parent of a.*.b
    << <<<<>>, "NS">>, <<<<"a", "*">>, "A">>, <<<<"a", "b">>, "A">>,
       <<<<"b", "*", "a">>, "A">> >>
ZoneCut ==        \* cut at a with DS and glue, nested cut at a.a
    << <<<<>>, "NS">>, <<<<"a">>, "NS">>, <<<<"a">>, "DS">>,
       <<<<"a", "b">>, "A">>, <<<<"a", "a">>, "NS">>,
       <<<<"a", "a", "a">>, "A">>, <<<<"b">>, "A">> >>
\* DNAME at a and at b.a below it; below the cut at b a DNAME and a wildcard
ZoneDname ==
    << <<<<>>, "NS">>, <<<<"a">>, "DNAME">>, <<<<"a", "b">>, "A">>,
       <<<<"a", "b">>, "DNAME">>, <<<<"a", "b", "a">>, "A">>,
       <<<<"b">>, "NS">>, <<<<"b", "a">>, "DNAME">>,
       <<<<"b", "a", "b">>, "A">>, <<<<"b", "*">>, "A">> >>
ZoneApexDname ==  \* DNAME and NS together at the apex
    << <<<<>>, "NS">>, <<<<>>, "DNAME">>, <<<<"a">>, "A">>,
       <<<<"b">>, "NS">> >>

\* Zones whose NS and MX record sets are followed by additional-section
\* processing: a cut at a with glue (a.a) and an empty non-terminal (b.a)
\* below it, an address at b, a wildcard *.b
ZoneGlue ==
    << <<<<>>, "NS">>, <<<<>>, "MX">>, <<<<"a">>, "NS">>,
       <<<<"a", "a">>, "A">>, <<<<"a", "b", "a">>, "A">>, <<<<"b">>, "A">>,
       <<<<"b", "*">>, "A">> >>
\* a DNAME at a with data below it, an address at b
ZoneGlueDname ==
    << <<<<>>, "NS">>, <<<<>>, "MX">>, <<<<"a">>, "DNAME">>,
       <<<<"a", "a">>, "A">>, <<<<"b">>, "A">> >>

GlueFiles == {ZoneGlue, ZoneGlueDname}

ZoneFiles ==
    {ZoneBasic, ZoneWild, ZoneWildSplit, ZoneWildReal, ZoneCut, ZoneDname,
     ZoneApexDname}

\* How the zone is signed: not at all, NSEC on every authoritative name,
\* NSEC3, or NSEC and NSEC3.
SignModes == {"none", "nsec", "nsec3", "nsec_nsec3"}

\* NSEC3 with a chain that lacks the NSEC3 of the apex: a zone file the
\* loader accepts and a recursive findNSEC3() reports as broken.
BrokenMode == "nsec3_broken"

NSEC3Modes == {"nsec3", "nsec_nsec3", BrokenMode}

Range(s) == {s[i] : i \in 1..Len(s)}

\* Names the loader inserts for one owner name: the name itself and, for
\* every wildcard label in it, the wildcard name and its parent.
InsertedNames(n) ==
    {n} \cup UNION {{SubSeq(n, 1, i), SubSeq(n, 1, i - 1)} :
                       i \in {j \in (Len(Origin) + 1)..Len(n) : n[j] = "*"}}

\* The tree has a node for every inserted name and for the longest common
\* ancestor of any two of them (node splitting).
TreeNodes(file) ==
    LET ins == {Origin} \cup
               UNION {InsertedNames(Origin \o rr[1]) : rr \in Range(file)}
    IN  {SubSeq(a, 1, CommonLen(a, b)) : a \in ins, b \in ins}

\* RdataSet list of a node: the types of the node in the order they were added.
RECURSIVE TypesAt(_, _)
TypesAt(file, n) ==
    IF file = <<>> THEN <<>>
    ELSE IF Origin \o Head(file)[1] = n
         THEN <<Head(file)[2]>> \o TypesAt(Tail(file), n)
         ELSE TypesAt(Tail(file), n)

HasType(list, t) == \E i \in 1..Len(list) : list[i] = t

\* Nodes of an NSEC-signed zone that carry NSEC: non-empty names that are
\* not below a zone cut or a DNAME.
Occluded(file, n) ==
    \E i \in 1..(Len(n) - 1) :
        LET up == TypesAt(file, SubSeq(n, 1, i)) IN
        HasType(up, "DNAME") \/ (i > Len(Origin) /\ HasType(up, "NS"))

\* The NSEC3 hash of a name (NSEC3Hash::calculate()): the name below the
\* origin read as a number, scrambled by an injective map onto 1..HashModulus.
RECURSIVE Pow4(_)
Pow4(n) == IF n = 0 THEN 1 ELSE 4 * Pow4(n - 1)

HashModulus == Pow4(MaxDepth + 1) + 1

RECURSIVE NameCode(_)
NameCode(rel) ==
    IF rel = <<>> THEN 0
    ELSE 4 * NameCode(SubSeq(rel, 1, Len(rel) - 1)) + LabelOrd(rel[Len(rel)])

NSEC3Hash(n) ==
    ((37 * NameCode(SubSeq(n, Len(Origin) + 1, Len(n))) + 11) % HashModulus) + 1

\* The owner names of a complete NSEC3 chain: every name of the zone, empty
\* non-terminals included, that is not below a zone cut or a DNAME.
ChainNames(file, nodes) ==
    UNION {{SubSeq(n, 1, i) : i \in Len(Origin)..Len(n)} :
              n \in {m \in nodes : TypesAt(file, m) # <<>>}}

\* The hashes stored in the NSEC3 tree of the zone.
NSEC3Tree(file, nodes, mode) ==
    LET names == {n \in ChainNames(file, nodes) : ~Occluded(file, n)} IN
    IF mode \notin NSEC3Modes THEN {}
    ELSE IF mode = BrokenMode
    THEN {NSEC3Hash(n) : n \in names \ {Origin}}
    ELSE {NSEC3Hash(n) : n \in names}

LoadZone(file, mode) ==
    LET nodes == TreeNodes(file)
        nsecAt(n) ==
            /\ TypesAt(file, n) # <<>>
            /\ mode \in {"nsec", "nsec_nsec3"}
            /\ ~Occluded(file, n)
    IN  [nodes |-> nodes,
         data  |-> [n \in nodes |->
                       IF nsecAt(n) THEN Append(TypesAt(file, n), "NSEC")
                       ELSE TypesAt(file, n)],
         nsec3 |-> mode \in NSEC3Modes,
         nsec3_tree |-> NSEC3Tree(file, nodes, mode)]

Zones ==
    {LoadZone(f, m) : f \in ZoneFiles, m \in SignModes}
        \cup {LoadZone(ZoneWild, BrokenMode)}

GlueZones == {LoadZone(f, m) : f \in GlueFiles, m \in SignModes}

\* The names the rdata of NS and MX record sets of these zones refer to: the
\* cut a, the glue a.a, the empty b.a and the absent a.a.a below the cut, the
\* address b, a.b (matched by *.b where that exists), the root (a null MX)
\* and a name of another zone.
AdditionalTargets ==
    << Origin \o <<"a">>, Origin \o <<"a", "a">>, Origin \o <<"a", "b">>,
       Origin \o <<"a", "a", "a">>, Origin \o <<"b">>, Origin \o <<"b", "a">>,
       <<>>, <<"other", "a">> >>

\* RdataReader::iterate(): the names in the rdata of a record set, each with
\* its attributes.  Name server and mail exchanger names ask for additional
\* processing; the target of a CNAME is only compressible; the names in
\* DNAME and NSEC rdata have no attribute.
RdataNames(rdset) ==
    IF rdset.type \in {"NS", "MX"}
    THEN [i \in 1..Len(AdditionalTargets) |->
             [name |-> AdditionalTargets[i],
              attr |-> {"NAMEATTR_ADDITIONAL", "NAMEATTR_COMPRESSIBLE"}]]
    ELSE IF rdset.type = "CNAME"
    THEN <<[name |-> Origin \o <<"b">>, attr |-> {"NAMEATTR_COMPRESSIBLE"}]>>
    ELSE IF rdset.type \in {"DNAME", "NSEC"}
    THEN <<[name |-> Origin \o <<"b">>, attr |-> {}]>>
    ELSE <<>>

(***************************************************************************)
(* ZoneData and ZoneNode accessors                                         *)
(***************************************************************************)
getData(z, n) == z.data[n]

isEmpty(z, n) == z.data[n] = <<>>

\* The loader marks the zone NSEC-signed when the apex gets an NSEC.
isSigned(z) == HasType(z.data[Origin], "NSEC")

isNSEC3Signed(z) == z.nsec3

\* FLAG_CALLBACK is set on a node that got a DNAME, or an NS below the apex.
FLAG_CALLBACK(z, n) ==
    HasType(z.data[n], "DNAME") \/ (n # Origin /\ HasType(z.data[n], "NS"))

\* WILDCARD_NODE is set on the parent of a wildcard name.
WILDCARD_NODE(z, n) == Append(n, "*") \in z.nodes

\* RdataSet::find(): the rdata set of the given type in a node's list.
NULL_RDSET == [node |-> NULL, type |-> "NULL"]

RdataSetFind(z, n, t) ==
    IF HasType(z.data[n], t) THEN [node |-> n, type |-> t] ELSE NULL_RDSET

(***************************************************************************)
(* FindState and cutCallback                                               *)
(***************************************************************************)
FindState(glue_ok) ==
    [zonecut_node_ |-> NULL, dname_node_ |-> NULL, rrset_ |-> NULL_RDSET,
     glue_ok_ |-> glue_ok]

\* cutCallback() looking for NS before DNAME.
cutCallback_nsFirst(z, node, state) ==
    LET found_dname == RdataSetFind(z, node, "DNAME")
        found_ns    == RdataSetFind(z, node, "NS")
    IN  IF found_ns # NULL_RDSET
        THEN IF state.zonecut_node_ # NULL
             THEN [state |-> state, ret |-> FALSE]
             ELSE [state |-> [state EXCEPT !.zonecut_node_ = node,
                                           !.rrset_ = found_ns],
                   ret |-> ~state.glue_ok_]
        ELSE IF found_dname # NULL_RDSET
        THEN [state |-> [state EXCEPT !.dname_node_ = node,
                                      !.rrset_ = found_dname],
              ret |-> TRUE]
        ELSE [state |-> state, ret |-> FALSE]

\* cutCallback() with the return value at a zone cut inverted.
cutCallback_stopOnGlue(z, node, state) ==
    LET found_dname == RdataSetFind(z, node, "DNAME")
        found_ns    == RdataSetFind(z, node, "NS")
    IN  IF found_dname # NULL_RDSET
        THEN [state |-> [state EXCEPT !.dname_node_ = node,
                                      !.rrset_ = found_dname],
              ret |-> TRUE]
        ELSE IF found_ns # NULL_RDSET
        THEN IF state.zonecut_node_ # NULL
             THEN [state |-> state, ret |-> FALSE]
             ELSE [state |-> [state EXCEPT !.zonecut_node_ = node,
                                           !.rrset_ = found_ns],
                   ret |-> state.glue_ok_]
        ELSE [state |-> state, ret |-> FALSE]

\* cutCallback() without the guard for nested cuts: each NS node met is
\* recorded.
cutCallback_everyCut(z, node, state) ==
    LET found_dname == RdataSetFind(z, node, "DNAME")
        found_ns    == RdataSetFind(z, node, "NS")
    IN  IF found_dname # NULL_RDSET
        THEN [state |-> [state EXCEPT !.dname_node_ = node,
                                      !.rrset_ = found_dname],
              ret |-> TRUE]
        ELSE IF found_ns # NULL_RDSET
        THEN [state |-> [state EXCEPT !.zonecut_node_ = node,
                                      !.rrset_ = found_ns],
              ret |-> ~state.glue_ok_]
        ELSE [state |-> state, ret |-> FALSE]

\* Returns the updated state and the callback's return value (TRUE stops the
\* descent).  The callback flag is only set on nodes with DNAME or NS, so the
\* final branch (an assertion in the code) is not reached.
cutCallback(z, node, state) ==
    LET found_dname == RdataSetFind(z, node, "DNAME")
        found_ns    == RdataSetFind(z, node, "NS")
    IN  IF found_dname # NULL_RDSET
        THEN [state |-> [state EXCEPT !.dname_node_ = node,
                                      !.rrset_ = found_dname],
              ret |-> TRUE]
        ELSE IF found_ns # NULL_RDSET
        THEN IF state.zonecut_node_ # NULL
             THEN [state |-> state, ret |-> FALSE]
             ELSE [state |-> [state EXCEPT !.zonecut_node_ = node,
                                           !.rrset_ = found_ns],
                   ret |-> ~state.glue_ok_]
        ELSE [state |-> state, ret |-> FALSE]

(***************************************************************************)
(* ZoneTree::find() with a callback, and the search path it leaves         *)
(***************************************************************************)
\* The node directly above n in the tree.
getUpperNode(z, n) ==
    LET ups == {m \in z.nodes : m # n /\ IsPrefix(m, n)} IN
    IF ups = {} THEN NULL
    ELSE CHOOSE m \in ups : \A k \in ups : Len(k) <= Len(m)

\* The search from node cur, an ancestor of (or equal to) the name q.
\* relation is the last comparison of the path: q against the node compared
\* last ("NONE" when the binary search among the children of cur found no
\* node sharing a label with the rest of q).
RECURSIVE TreeDescend(_, _, _, _)
TreeDescend(z, q, cur, st) ==
    IF cur = q
    THEN [result |-> "EXACTMATCH", node |-> cur, state |-> st,
          relation |-> "EQUAL", name |-> q]
    ELSE
    LET cb == IF FLAG_CALLBACK(z, cur) THEN cutCallback(z, cur, st)
              ELSE [state |-> st, ret |-> FALSE]
        down == {n \in z.nodes : getUpperNode(z, n) = cur}
        next == {n \in down : n[Len(cur) + 1] = q[Len(cur) + 1]}
        stop(rel) == [result |-> "PARTIALMATCH", node |-> cur,
                      state |-> cb.state, relation |-> rel, name |-> q]
    IN  IF cb.ret \/ down = {} THEN stop("SUBDOMAIN")
        ELSE IF next = {} THEN stop("NONE")
        ELSE LET n == CHOOSE n \in next : TRUE IN
             IF IsPrefix(n, q) THEN TreeDescend(z, q, n, cb.state)
             ELSE stop(Relation(q, n))

TreeFind(z, q, st) ==
    IF IsPrefix(Origin, q) THEN TreeDescend(z, q, Origin, st)
    ELSE [result |-> "NOTFOUND", node |-> NULL, state |-> st,
          relation |-> Relation(q, Origin), name |-> q]

\* ZoneTree::previousNode() repeated: the nodes that precede the position of
\* the searched name, nearest first, are the nodes smaller than the name.
PreviousNodes(z, path) == {n \in z.nodes : NameLess(n, path.name)}

Nearest(S) == CHOOSE n \in S : \A m \in S : m = n \/ NameLess(m, n)

(***************************************************************************)
(* Helpers of find()                                                       *)
(***************************************************************************)
FindOptions == SUBSET {"FIND_GLUE_OK", "FIND_DNSSEC", "NO_WILDCARD"}

NULL_RRSET == [name |-> NULL, node |-> NULL, type |-> "NULL", dnssec |-> FALSE]

\* createTreeNodeRRset() always naming the record set after its node.
createTreeNodeRRset_nodeName(node, rdataset, options, realname) ==
    IF node # NULL /\ rdataset # NULL_RDSET
    THEN [name |-> node, node |-> node, type |-> rdataset.type,
          dnssec |-> "FIND_DNSSEC" \in options]
    ELSE NULL_RRSET

\* realname = NULL stands for the absent (NULL) realname argument.
createTreeNodeRRset(node, rdataset, options, realname) ==
    IF node # NULL /\ rdataset # NULL_RDSET
    THEN [name |-> IF realname # NULL THEN realname ELSE node,
          node |-> node, type |-> rdataset.type,
          dnssec |-> "FIND_DNSSEC" \in options]
    ELSE NULL_RRSET

\* createFindResult() setting RESULT_WILDCARD whenever a query name is passed.
createFindResult_flagOnQname(z, code, rdset, node, options, wild, qname) ==
    LET rename == IF wild THEN qname ELSE NULL
        flags ==
            (IF qname # NULL THEN {"RESULT_WILDCARD"} ELSE {}) \cup
            (IF code = "NXRRSET" \/ code = "NXDOMAIN" \/ wild
             THEN IF isNSEC3Signed(z) THEN {"RESULT_NSEC3_SIGNED"}
                  ELSE IF isSigned(z) THEN {"RESULT_NSEC_SIGNED"}
                  ELSE {}
             ELSE {})
    IN  [code |-> code,
         rrset |-> createTreeNodeRRset(node, rdset, options, rename),
         flags |-> flags, found_node |-> node, found_rdset |-> rdset]

\* createFindResult() setting the signing flags only for FIND_DNSSEC queries.
createFindResult_signedOnlyWithDnssec(z, code, rdset, node, options, wild, qname) ==
    LET rename == IF wild THEN qname ELSE NULL
        flags ==
            (IF wild THEN {"RESULT_WILDCARD"} ELSE {}) \cup
            (IF (code = "NXRRSET" \/ code = "NXDOMAIN" \/ wild)
                    /\ "FIND_DNSSEC" \in options
             THEN IF isNSEC3Signed(z) THEN {"RESULT_NSEC3_SIGNED"}
                  ELSE IF isSigned(z) THEN {"RESULT_NSEC_SIGNED"}
                  ELSE {}
             ELSE {})
    IN  [code |-> code,
         rrset |-> createTreeNodeRRset(node, rdset, options, rename),
         flags |-> flags, found_node |-> node, found_rdset |-> rdset]

createFindResult(z, code, rdset, node, options, wild, qname) ==
    LET rename == IF wild THEN qname ELSE NULL
        flags ==
            (IF wild THEN {"RESULT_WILDCARD"} ELSE {}) \cup
            (IF code = "NXRRSET" \/ code = "NXDOMAIN" \/ wild
             THEN IF isNSEC3Signed(z) THEN {"RESULT_NSEC3_SIGNED"}
                  ELSE IF isSigned(z) THEN {"RESULT_NSEC_SIGNED"}
                  ELSE {}
             ELSE {})
    IN  [code |-> code,
         rrset |-> createTreeNodeRRset(node, rdset, options, rename),
         flags |-> flags, found_node |-> node, found_rdset |-> rdset]

\* getClosestNSEC() taking the first previous node, whether or not it is empty
\* or has an NSEC.
getClosestNSEC_firstPrevious(z, node_path, options) ==
    IF ~isSigned(z) \/ "FIND_DNSSEC" \notin options \/ isNSEC3Signed(z)
    THEN [rds |-> NULL_RDSET, assigned |-> FALSE, nsec_node |-> NULL,
          failed |-> FALSE]
    ELSE LET cand == PreviousNodes(z, node_path)
         IN  IF cand = {}
             THEN [rds |-> NULL_RDSET, assigned |-> FALSE, nsec_node |-> NULL,
                   failed |-> TRUE]
             ELSE LET prev_node == Nearest(cand) IN
                  [rds |-> RdataSetFind(z, prev_node, "NSEC"),
                   assigned |-> TRUE, nsec_node |-> prev_node,
                   failed |-> FALSE]

\* Returns the NSEC found (or NULL_RDSET), whether *nsec_node was assigned and
\* to what, and whether the final assertion failed (no NSEC before the name).
getClosestNSEC(z, node_path, options) ==
    IF ~isSigned(z) \/ "FIND_DNSSEC" \notin options \/ isNSEC3Signed(z)
    THEN [rds |-> NULL_RDSET, assigned |-> FALSE, nsec_node |-> NULL,
          failed |-> FALSE]
    ELSE LET cand == {n \in PreviousNodes(z, node_path) :
                         ~isEmpty(z, n) /\
                         RdataSetFind(z, n, "NSEC") # NULL_RDSET}
         IN  IF cand = {}
             THEN [rds |-> NULL_RDSET, assigned |-> FALSE, nsec_node |-> NULL,
                   failed |-> TRUE]
             ELSE LET prev_node == Nearest(cand) IN
                  [rds |-> RdataSetFind(z, prev_node, "NSEC"),
                   assigned |-> TRUE, nsec_node |-> prev_node,
                   failed |-> FALSE]

\* getNSECForNXRRSET() without the NSEC3 test.
getNSECForNXRRSET_ignoreNSEC3(z, options, node) ==
    IF isSigned(z) /\ "FIND_DNSSEC" \in options
    THEN RdataSetFind(z, node, "NSEC")
    ELSE NULL_RDSET

getNSECForNXRRSET(z, options, node) ==
    IF isSigned(z) /\ ~isNSEC3Signed(z) /\ "FIND_DNSSEC" \in options
    THEN RdataSetFind(z, node, "NSEC")
    ELSE NULL_RDSET

(***************************************************************************)
(* findNode()                                                              *)
(***************************************************************************)
FindNodeResult(code, node, rrset, flags, node_path) ==
    [code |-> code, node |-> node, rrset |-> rrset, flags |-> flags,
     node_path |-> node_path, exc |-> "none"]

\* A negative FindNodeResult built from getClosestNSEC(); uninit is what the
\* local nsec_node holds when getClosestNSEC() does not assign it.
NegativeResult(z, code, node_path, options, uninit) ==
    LET nsec == getClosestNSEC(z, node_path, options) IN
    IF nsec.failed
    THEN [FindNodeResult(code, NULL, NULL_RDSET, {}, node_path)
             EXCEPT !.exc = "assert"]
    ELSE FindNodeResult(code,
                        IF nsec.assigned THEN nsec.nsec_node ELSE uninit,
                        nsec.rds, {}, node_path)

\* The empty non-terminal test against the wrong relation.
isEmptyNonTerminal_wrongRelation(node_path) ==
    node_path.relation = "COMMONANCESTOR"

\* Last comparison SUPERDOMAIN: the search stopped at a node below the name,
\* which is therefore an empty non-terminal.
isEmptyNonTerminal(node_path) == node_path.relation = "SUPERDOMAIN"

\* The wildcard test also accepting a wildcard parent one node further up.
mayBeWildcard_upperNode(z, node, options) ==
    /\ WILDCARD_NODE(z, node) \/ WILDCARD_NODE(z, getUpperNode(z, node))
    /\ "NO_WILDCARD" \notin options

\* The wildcard test without the NO_WILDCARD option.
mayBeWildcard_ignoreOption(z, node, options) == WILDCARD_NODE(z, node)

\* The stop node may have a wildcard below it, and wildcards are not disabled.
mayBeWildcard(z, node, options) ==
    WILDCARD_NODE(z, node) /\ "NO_WILDCARD" \notin options

\* The cancellation test against the wrong relation.
wildcardCancelled_wrongRelation(node_path) ==
    node_path.relation = "SUPERDOMAIN"

\* Last comparison COMMONANCESTOR: a name between the wildcard parent and the
\* query name exists and cancels the wildcard.
wildcardCancelled(node_path) == node_path.relation = "COMMONANCESTOR"

\* A name out of the zone reported as NXDOMAIN instead of raising.
throwOutOfZone_asNxdomain(node_path) ==
    FindNodeResult("NXDOMAIN", NULL, NULL_RDSET, {}, node_path)

\* Neither an exact nor a partial match: the name is out of the zone.
throwOutOfZone(node_path) ==
    [FindNodeResult("NONE", NULL, NULL_RDSET, {}, node_path)
        EXCEPT !.exc = "OutOfZone"]

\* The PARTIALMATCH branch.
findNodePartial(z, found, options, uninit) ==
    LET st   == found.state
        node == found.node
        zonecut_flag ==
            IF st.zonecut_node_ # NULL THEN {"FIND_ZONECUT"} ELSE {}
    IN
    IF st.dname_node_ # NULL
    THEN FindNodeResult("DNAME", st.dname_node_, st.rrset_, {}, found)
    ELSE IF st.zonecut_node_ # NULL
    THEN FindNodeResult("DELEGATION", st.zonecut_node_, st.rrset_, {}, found)
    ELSE IF isEmptyNonTerminal(found)
    THEN NegativeResult(z, "NXRRSET", found, options, uninit)
    ELSE IF mayBeWildcard(z, node, options)
    THEN IF wildcardCancelled(found)
         THEN NegativeResult(z, "NXDOMAIN", found, options, uninit)
         ELSE LET wildcard_ls == Append(node, "*")
                  wfound == TreeFind(z, wildcard_ls, st)
              IN  IF wfound.result # "EXACTMATCH"
                  THEN [FindNodeResult("SUCCESS", wfound.node,
                                       wfound.state.rrset_, {}, wfound)
                           EXCEPT !.exc = "assert"]
                  ELSE FindNodeResult("SUCCESS", wfound.node,
                                      wfound.state.rrset_,
                                      {"FIND_WILDCARD"} \cup zonecut_flag,
                                      wfound)
    ELSE NegativeResult(z, "NXDOMAIN", found, options, uninit)

\* findNode() from the result of the tree search on.
findNodeResult(z, found, options, uninit) ==
    IF found.result = "EXACTMATCH"
    THEN FindNodeResult("SUCCESS", found.node, found.state.rrset_,
                        IF found.state.zonecut_node_ # NULL
                        THEN {"FIND_ZONECUT"} ELSE {},
                        found)
    ELSE IF found.result = "PARTIALMATCH"
    THEN findNodePartial(z, found, options, uninit)
    ELSE throwOutOfZone(found)

findNode(z, name_labels, options, uninit) ==
    findNodeResult(z,
                   TreeFind(z, name_labels,
                            FindState("FIND_GLUE_OK" \in options)),
                   options, uninit)

(***************************************************************************)
(* find_internal()                                                         *)
(***************************************************************************)
ResultCodes ==
    {"SUCCESS", "NXDOMAIN", "NXRRSET", "CNAME", "DNAME", "DELEGATION"}

\* The rdata sets of a node pushed last first.
AllRRsets_reversed(z, node, options, realname) ==
    [i \in 1..Len(getData(z, node)) |->
        createTreeNodeRRset(node,
                            [node |-> node,
                             type |-> getData(z, node)[Len(getData(z, node))
                                                       + 1 - i]],
                            options, realname)]

\* The rdata sets of a node as TreeNodeRRsets, in list order.
AllRRsets(z, node, options, realname) ==
    [i \in 1..Len(getData(z, node)) |->
        createTreeNodeRRset(node, [node |-> node, type |-> getData(z, node)[i]],
                            options, realname)]

\* The ZoneFinderResultContext returned, what was pushed to the target, the
\* FindNodeResult it was built from, and the exception or failed assertion
\* that ended the call instead ("none" when it returned).
Returned(ctx, pushed, node_result) ==
    [ctx |-> ctx, pushed |-> pushed, node_result |-> node_result,
     exc |-> "none"]

NoContext ==
    [code |-> "NONE", rrset |-> NULL_RRSET, flags |-> {}, found_node |-> NULL,
     found_rdset |-> NULL_RDSET]

\* The delegation test with the DS exception only for a node that has a DS.
isDelegation_dsOnlyIfPresent(z, node, type, options) ==
    /\ FLAG_CALLBACK(z, node)
    /\ "FIND_GLUE_OK" \notin options
    /\ node # Origin
    /\ type # "DS" \/ RdataSetFind(z, node, "DS") = NULL_RDSET
    /\ RdataSetFind(z, node, "NS") # NULL_RDSET

\* The delegation test without the DS exception.
isDelegation_alsoForDS(z, node, type, options) ==
    /\ FLAG_CALLBACK(z, node)
    /\ "FIND_GLUE_OK" \notin options
    /\ node # Origin
    /\ RdataSetFind(z, node, "NS") # NULL_RDSET

\* The delegation test without the FIND_GLUE_OK exception.
isDelegation_alsoForGlue(z, node, type, options) ==
    /\ FLAG_CALLBACK(z, node)
    /\ node # Origin
    /\ type # "DS"
    /\ RdataSetFind(z, node, "NS") # NULL_RDSET

\* An exact match at a zone cut is a delegation, except at the apex, for a DS
\* query and when glue is wanted.
isDelegation(z, node, type, options) ==
    /\ FLAG_CALLBACK(z, node)
    /\ "FIND_GLUE_OK" \notin options
    /\ node # Origin
    /\ type # "DS"
    /\ RdataSetFind(z, node, "NS") # NULL_RDSET

\* find_internal() trying CNAME before the requested type.
answerFromNode_cnameFirst(z, name, type, target, options, uninit, node_result) ==
    LET node == node_result.node
        wild == "FIND_WILDCARD" \in node_result.flags
    IN
    IF node_result.exc # "none"
    THEN [Returned(NoContext, <<>>, node_result)
             EXCEPT !.exc = node_result.exc]
    ELSE IF node_result.code # "SUCCESS"
    THEN Returned(createFindResult(z, node_result.code, node_result.rrset,
                                   node_result.node, options, FALSE, NULL),
                  <<>>, node_result)
    ELSE IF isEmpty(z, node)
    THEN LET nsec == getClosestNSEC(z, node_result.node_path, options) IN
         IF nsec.failed
         THEN [Returned(NoContext, <<>>, node_result) EXCEPT !.exc = "assert"]
         ELSE Returned(createFindResult(z, "NXRRSET", nsec.rds,
                           IF nsec.assigned THEN nsec.nsec_node ELSE uninit,
                           options, wild, NULL),
                       <<>>, node_result)
    ELSE IF isDelegation(z, node, type, options)
    THEN Returned(createFindResult(z, "DELEGATION",
                                   RdataSetFind(z, node, "NS"), node, options,
                                   wild, name),
                  <<>>, node_result)
    ELSE IF target /\ getData(z, node) # <<>>
    THEN Returned(createFindResult(z, "SUCCESS", NULL_RDSET, node, options,
                                   wild, name),
                  AllRRsets(z, node, options, name), node_result)
    ELSE IF RdataSetFind(z, node, "CNAME") # NULL_RDSET
    THEN Returned(createFindResult(z, "CNAME", RdataSetFind(z, node, "CNAME"),
                                   node, options, wild, name),
                  <<>>, node_result)
    ELSE IF RdataSetFind(z, node, type) # NULL_RDSET
    THEN Returned(createFindResult(z, "SUCCESS", RdataSetFind(z, node, type),
                                   node, options, wild, name),
                  <<>>, node_result)
    ELSE Returned(createFindResult(z, "NXRRSET",
                                   getNSECForNXRRSET(z, options, node), node,
                                   options, wild, name),
                  <<>>, node_result)

\* find_internal() from the result of findNode() on.  target is TRUE when a
\* target vector was passed (findAll()).
answerFromNode(z, name, type, target, options, uninit, node_result) ==
    LET node == node_result.node
        wild == "FIND_WILDCARD" \in node_result.flags
    IN
    IF node_result.exc # "none"
    THEN [Returned(NoContext, <<>>, node_result)
             EXCEPT !.exc = node_result.exc]
    ELSE IF node_result.code # "SUCCESS"
    THEN Returned(createFindResult(z, node_result.code, node_result.rrset,
                                   node_result.node, options, FALSE, NULL),
                  <<>>, node_result)
    ELSE IF isEmpty(z, node)
    THEN LET nsec == getClosestNSEC(z, node_result.node_path, options) IN
         IF nsec.failed
         THEN [Returned(NoContext, <<>>, node_result) EXCEPT !.exc = "assert"]
         ELSE Returned(createFindResult(z, "NXRRSET", nsec.rds,
                           IF nsec.assigned THEN nsec.nsec_node ELSE uninit,
                           options, wild, NULL),
                       <<>>, node_result)
    ELSE IF isDelegation(z, node, type, options)
    THEN Returned(createFindResult(z, "DELEGATION",
                                   RdataSetFind(z, node, "NS"), node, options,
                                   wild, name),
                  <<>>, node_result)
    ELSE IF target /\ getData(z, node) # <<>>
    THEN Returned(createFindResult(z, "SUCCESS", NULL_RDSET, node, options,
                                   wild, name),
                  AllRRsets(z, node, options, name), node_result)
    ELSE IF RdataSetFind(z, node, type) # NULL_RDSET
    THEN Returned(createFindResult(z, "SUCCESS", RdataSetFind(z, node, type),
                                   node, options, wild, name),
                  <<>>, node_result)
    ELSE IF RdataSetFind(z, node, "CNAME") # NULL_RDSET
    THEN Returned(createFindResult(z, "CNAME", RdataSetFind(z, node, "CNAME"),
                                   node, options, wild, name),
                  <<>>, node_result)
    ELSE Returned(createFindResult(z, "NXRRSET",
                                   getNSECForNXRRSET(z, options, node), node,
                                   options, wild, name),
                  <<>>, node_result)

find_internal(z, name, type, target, options, uninit) ==
    answerFromNode(z, name, type, target, options, uninit,
                   findNode(z, name, options, uninit))

(***************************************************************************)
(* findNSEC3()                                                             *)
(***************************************************************************)
\* A node of the NSEC3 tree is identified by its hash; 0 is the NULL node.
NULL_NODE == 0

NULL_NSEC3 == [hash |-> NULL_NODE, type |-> "NULL"]

\* createTreeNodeRRset() for a node of the NSEC3 tree and its one rdata set.
createNSEC3RRset(node) ==
    IF node # NULL_NODE THEN [hash |-> node, type |-> "NSEC3"]
    ELSE NULL_NSEC3

\* In-order navigation among the hashes of the NSEC3 tree.
predecessor(tree, node) ==
    LET lower == {m \in tree : m < node} IN
    IF lower = {} THEN NULL_NODE
    ELSE CHOOSE m \in lower : \A k \in lower : k <= m

successor(tree, node) ==
    LET upper == {m \in tree : m > node} IN
    IF upper = {} THEN NULL_NODE
    ELSE CHOOSE m \in upper : \A k \in upper : m <= k

getLargestInSubTree(tree) == CHOOSE m \in tree : \A k \in tree : k <= m

\* ZoneTree::find() on the NSEC3 tree: an exact match, or the ways the binary
\* search can end for a hash that is not stored.  The node compared last is
\* the nearest smaller hash (order > 0) or the nearest larger one (order < 0),
\* depending on the shape of the tree.
NSEC3TreeFind(tree, hash) ==
    IF hash \in tree
    THEN {[result |-> "EXACTMATCH", node |-> hash, order |-> 0]}
    ELSE {[result |-> "PARTIALMATCH", node |-> n, order |-> 1] :
             n \in {predecessor(tree, hash)} \ {NULL_NODE}}
         \cup
         {[result |-> "PARTIALMATCH", node |-> n, order |-> -1] :
             n \in {successor(tree, hash)} \ {NULL_NODE}}

\* The candidate for the covering NSEC3 after a search that ended at last.
coveringNode(tree, last) ==
    LET previous_node == predecessor(tree, last.node)
        next_node     == successor(tree, last.node)
    IN  IF \/ last.order < 0 /\ previous_node = NULL_NODE
           \/ last.order > 0 /\ next_node = NULL_NODE
        THEN getLargestInSubTree(tree)
        ELSE previous_node

getLabelCount(name) == Len(name) + 1

FindNSEC3Result(matched, labels, closest, next, lookups) ==
    [exc |-> "none", matched |-> matched, closest_labels |-> labels,
     closest_proof |-> closest, next_proof |-> next, lookups |-> lookups]

NoNSEC3Result == FindNSEC3Result(FALSE, 0, NULL_NSEC3, NULL_NSEC3, <<>>)

\* The loop of findNSEC3() ending before the origin's hash is tried.
RECURSIVE findNSEC3Loop_skipOrigin(_, _, _, _, _, _)
findNSEC3Loop_skipOrigin(z, name, recursive, labels, covering_node, lookups) ==
    IF labels <= getLabelCount(Origin)
    THEN {[NoNSEC3Result EXCEPT !.exc = "DataSourceError",
                                !.lookups = lookups]}
    ELSE UNION {
        IF last.result = "EXACTMATCH"
        THEN {FindNSEC3Result(TRUE, labels, createNSEC3RRset(last.node),
                              createNSEC3RRset(covering_node),
                              Append(lookups, labels))}
        ELSE IF ~recursive
        THEN {FindNSEC3Result(FALSE, labels,
                              createNSEC3RRset(coveringNode(z.nsec3_tree,
                                                            last)),
                              NULL_NSEC3, Append(lookups, labels))}
        ELSE findNSEC3Loop_skipOrigin(z, name, recursive, labels - 1,
                                      coveringNode(z.nsec3_tree, last),
                                      Append(lookups, labels)) :
        last \in NSEC3TreeFind(z.nsec3_tree,
                               NSEC3Hash(SubSeq(name, 1, labels - 1)))}

\* The loop of findNSEC3() from the given label count down, as the set of its
\* possible outcomes.  lookups lists the label counts hashed so far.
RECURSIVE findNSEC3Loop(_, _, _, _, _, _)
findNSEC3Loop(z, name, recursive, labels, covering_node, lookups) ==
    IF labels < getLabelCount(Origin)
    THEN {[NoNSEC3Result EXCEPT !.exc = "DataSourceError",
                                !.lookups = lookups]}
    ELSE UNION {
        IF last.result = "EXACTMATCH"
        THEN {FindNSEC3Result(TRUE, labels, createNSEC3RRset(last.node),
                              createNSEC3RRset(covering_node),
                              Append(lookups, labels))}
        ELSE IF ~recursive
        THEN {FindNSEC3Result(FALSE, labels,
                              createNSEC3RRset(coveringNode(z.nsec3_tree,
                                                            last)),
                              NULL_NSEC3, Append(lookups, labels))}
        ELSE findNSEC3Loop(z, name, recursive, labels - 1,
                           coveringNode(z.nsec3_tree, last),
                           Append(lookups, labels)) :
        last \in NSEC3TreeFind(z.nsec3_tree,
                               NSEC3Hash(SubSeq(name, 1, labels - 1)))}

\* The signing test without effect.
notNSEC3Signed_never(z) == FALSE

notNSEC3Signed(z) == ~isNSEC3Signed(z)

findNSEC3(z, name, recursive) ==
    IF notNSEC3Signed(z)
    THEN {[NoNSEC3Result EXCEPT !.exc = "DataSourceError"]}
    ELSE IF Relation(name, Origin) \notin {"EQUAL", "SUBDOMAIN"}
    THEN {[NoNSEC3Result EXCEPT !.exc = "OutOfZone"]}
    ELSE findNSEC3Loop(z, name, recursive, getLabelCount(name), NULL_NODE,
                       <<>>)

(***************************************************************************)
(* Context::getAdditional()                                                *)
(***************************************************************************)
\* What a call has appended to the result vector so far, and the exception or
\* fault that ended it ("none" while it runs and when it returns).
AdditionalResult(result, exc) == [result |-> result, exc |-> exc]

NoAdditional == AdditionalResult(<<>>, "none")

\* One step of a loop followed by the rest of it: an exception in the step
\* ends the loop.
ThenAdditional(first, rest) ==
    IF first.exc # "none" THEN first
    ELSE AdditionalResult(first.result \o rest.result, rest.exc)

findAdditionalHelper(z, requested_types, node, options, real_name) ==
    AdditionalResult(
        SelectSeq(AllRRsets(z, node, options, real_name),
                  LAMBDA rrset : rrset.type \in requested_types),
        "none")

\* findAdditional() from the result of findNode() on.
findAdditionalFound(z, requested_types, options, name_labels, node_result) ==
    IF node_result.exc # "none"
    THEN AdditionalResult(<<>>, node_result.exc)
    ELSE IF node_result.code # "SUCCESS" THEN NoAdditional
    ELSE IF /\ "FIND_GLUE_OK" \notin options
            /\ FLAG_CALLBACK(z, node_result.node)
            /\ node_result.node # Origin
    THEN NoAdditional
    ELSE IF "FIND_WILDCARD" \notin node_result.flags
    THEN findAdditionalHelper(z, requested_types, node_result.node, options,
                              NULL)
    ELSE findAdditionalHelper(z, requested_types, node_result.node, options,
                              name_labels)

\* The RdataReader callback.  What findNode() leaves in an unassigned
\* nsec_node is never read here: the result is dropped unless it is SUCCESS.
findAdditional(z, requested_types, options, name_labels, attr) ==
    IF "NAMEATTR_ADDITIONAL" \notin attr THEN NoAdditional
    ELSE IF Relation(Origin, name_labels) \notin {"SUPERDOMAIN", "EQUAL"}
    THEN NoAdditional
    ELSE findAdditionalFound(z, requested_types, options, name_labels,
                             findNode(z, name_labels, options, NULL))

\* RdataReader::iterate() calling findAdditional() for each name.
RECURSIVE iterateNames(_, _, _, _)
iterateNames(z, requested_types, options, names) ==
    IF names = <<>> THEN NoAdditional
    ELSE ThenAdditional(
             findAdditional(z, requested_types, options, Head(names).name,
                            Head(names).attr),
             iterateNames(z, requested_types, options, Tail(names)))

\* getAdditionalForRdataset() allowing glue for every type of record set.
getAdditionalForRdataset_glueAlways(z, rdset, requested_types, orig_options) ==
    iterateNames(z, requested_types,
                 (orig_options \cap {"FIND_DNSSEC"}) \cup {"FIND_GLUE_OK"},
                 RdataNames(rdset))

getAdditionalForRdataset(z, rdset, requested_types, orig_options) ==
    iterateNames(z, requested_types,
                 (orig_options \cap {"FIND_DNSSEC"}) \cup
                     (IF rdset.type = "NS" THEN {"FIND_GLUE_OK"} ELSE {}),
                 RdataNames(rdset))

\* The loop of getAdditionalImpl() over the rdata sets of the found node,
\* from the i-th on.
RECURSIVE forEachRdataSet(_, _, _, _, _)
forEachRdataSet(z, node, requested_types, orig_options, i) ==
    IF i > Len(getData(z, node)) THEN NoAdditional
    ELSE ThenAdditional(
             getAdditionalForRdataset(z,
                                      [node |-> node,
                                       type |-> getData(z, node)[i]],
                                      requested_types, orig_options),
             forEachRdataSet(z, node, requested_types, orig_options, i + 1))

\* The possible outcomes of getAdditionalImpl() for a Context.  A found_node_
\* that is neither null nor a node of the zone is an unassigned pointer:
\* reading through it faults or finds nothing to iterate over.
getAdditionalImpl(z, ctx, orig_options, requested_types) ==
    IF ctx.found_rdset # NULL_RDSET
    THEN {getAdditionalForRdataset(z, ctx.found_rdset, requested_types,
                                   orig_options)}
    ELSE IF ctx.found_node = NULL THEN {NoAdditional}
    ELSE IF ctx.found_node \notin z.nodes
    THEN {AdditionalResult(<<>>, "fault"), NoAdditional}
    ELSE {forEachRdataSet(z, ctx.found_node, requested_types, orig_options,
                          1)}

(***************************************************************************)
(* State and operations                                                    *)
(***************************************************************************)
VARIABLES
    zone_data,   \* InMemoryZoneFinder::zone_data_
    pc,          \* "idle", "found" after a call of find() or findAll(),
                 \* "nsec3" after a call of findNSEC3(), "additional"
                 \* after a call of getAdditional() on the Context
    query,       \* the arguments of the last call
    found,       \* what the last find() or findAll() returned or raised
    target,      \* the vector handed to findAll()
    nsec3,       \* what the last findNSEC3() returned or raised
    additional,  \* the arguments of getAdditional() (the types requested
                 \* and the result vector) and how the call ended
    locked_count,  \* Mutex::Impl::locked_count
    mutex,         \* Mutex::Impl::mutex: the thread that holds the pthread
                   \* mutex, or NoThread
    cond_waiters,  \* CondVar::Impl::cond_: the threads blocked in
                   \* pthread_cond_wait()
    thread,        \* per thread: its position in lock(), unlock(), wait()
                   \* or signal(), whether it has a Mutex::Locker in scope,
                   \* the result of its pthread_cond_wait() and the
                   \* exception its last call raised
    foreign_wait,  \* history: some thread without a Locker got past the
                   \* counter test of CondVar::wait()
    test,          \* the test of DataSrcClientsMgrTest that runs and its
                   \* position
    tests_done,    \* the tests that have run
    builder,       \* the static members of FakeDataSrcClientsBuilder, with
                   \* the counters of its mutex and condition variable
    thrown,        \* the exception in flight inside the manager's destructor
    escaped        \* the exception that left the manager's destructor

finder_vars == <<zone_data, pc, query, found, target, nsec3, additional>>

sync_vars == <<locked_count, mutex, cond_waiters, thread, foreign_wait>>

mgr_vars == <<test, tests_done, builder, thrown, escaped>>

vars == <<zone_data, pc, query, found, target, nsec3, additional,
          locked_count, mutex, cond_waiters, thread, foreign_wait,
          test, tests_done, builder, thrown, escaped>>

QueryTypes == {"A", "NS", "DS"}

\* Values an uninitialised node pointer may hold.
UninitValues(z) == {NULL, GARBAGE, Origin}

\* What the vector handed to findAll() may hold before the call: nothing, or
\* a record set of an earlier lookup.
TargetInputs ==
    {<<>>,
     <<[name |-> <<"other">>, node |-> <<"other">>, type |-> "A",
        dnssec |-> FALSE]>>}

NoQuery ==
    [op |-> "none", name |-> NULL, type |-> "NULL", options |-> {},
     target |-> <<>>, recursive |-> FALSE]

NoResult ==
    [ctx |-> NoContext, pushed |-> <<>>,
     node_result |-> [FindNodeResult("NONE", NULL, NULL_RDSET, {},
                                     TreeFind([nodes |-> {}], NULL,
                                              FindState(FALSE)))
                         EXCEPT !.exc = "none"],
     exc |-> "none"]

\* Threads that use one Mutex and one CondVar.
MaxThreads == 2

Threads == 1..MaxThreads

NoThread == 0

\* A thread outside every call, without a Locker.
ThreadStart ==
    [pc |-> "idle", call |-> "none", locker |-> FALSE, result |-> 0,
     exc |-> "none"]

\* Mutex::Mutex() and CondVar::CondVar(): an unlocked mutex whose counter is
\* 0 and a condition variable nobody waits on.
SyncConstructed ==
    /\ locked_count = 0
    /\ mutex = NoThread
    /\ cond_waiters = {}
    /\ thread = [t \in Threads |-> ThreadStart]
    /\ foreign_wait = FALSE

\* The values of FakeDataSrcClientsBuilder::thread_throw_on_wait.
ExceptionOnWait == {"NOTHROW", "THROW_UNCAUGHT_EX", "THROW_OTHER"}

\* The static members of FakeDataSrcClientsBuilder as its constructor sets
\* them, before the thread runs.
FakeBuilderReset ==
    [started |-> FALSE, command_queue |-> <<>>, lock_count |-> 0,
     unlock_count |-> 0, signal_count |-> 0, thread_waited |-> FALSE,
     thread_throw_on_wait |-> "NOTHROW"]

NoTest == [name |-> "none", pc |-> "none"]

\* No test has run and no manager exists.
NoManager ==
    /\ test = NoTest
    /\ tests_done = {}
    /\ builder = FakeBuilderReset
    /\ thrown = "none"
    /\ escaped = "none"

\* No call of getAdditional() yet.
NoAdditionalCall == [result |-> <<>>, exc |-> "none", requested_types |-> {}]

Init ==
    /\ zone_data \in Zones
    /\ pc = "idle"
    /\ query = NoQuery
    /\ found = NoResult
    /\ target = <<>>
    /\ nsec3 = NoNSEC3Result
    /\ additional = NoAdditionalCall
    /\ SyncConstructed
    /\ NoManager

\* InMemoryZoneFinder::find()
Find(name, type, options) ==
    /\ pc = "idle"
    /\ \E uninit \in UninitValues(zone_data) :
           found' = find_internal(zone_data, name, type, FALSE, options,
                                  uninit)
    /\ query' = [op |-> "find", name |-> name, type |-> type,
                 options |-> options, target |-> <<>>,
                 recursive |-> FALSE]
    /\ pc' = "found"
    /\ UNCHANGED <<zone_data, target, nsec3, additional>>
    /\ UNCHANGED sync_vars
    /\ UNCHANGED mgr_vars

\* InMemoryZoneFinder::findAll(); target_in is what the caller's vector holds
\* when it is passed.
FindAll(name, target_in, options) ==
    /\ pc = "idle"
    /\ \E uninit \in UninitValues(zone_data) :
           /\ found' = find_internal(zone_data, name, "ANY", TRUE, options,
                                     uninit)
           /\ target' = target_in \o found'.pushed
    /\ query' = [op |-> "findAll", name |-> name, type |-> "ANY",
                 options |-> options, target |-> target_in,
                 recursive |-> FALSE]
    /\ pc' = "found"
    /\ UNCHANGED <<zone_data, nsec3, additional>>
    /\ UNCHANGED sync_vars
    /\ UNCHANGED mgr_vars

\* InMemoryZoneFinder::findNSEC3()
FindNSEC3(name, recursive) ==
    /\ pc = "idle"
    /\ nsec3' \in findNSEC3(zone_data, name, recursive)
    /\ query' = [op |-> "findNSEC3", name |-> name, type |-> "NSEC3",
                 options |-> {}, target |-> <<>>, recursive |-> recursive]
    /\ pc' = "nsec3"
    /\ UNCHANGED <<zone_data, found, target, additional>>
    /\ UNCHANGED sync_vars
    /\ UNCHANGED mgr_vars

\* Context::getAdditional() on the Context of the last find() or findAll(),
\* with an empty result vector.
GetAdditional(requested_types) ==
    /\ pc = "found"
    /\ found.exc = "none"
    /\ \E outcome \in getAdditionalImpl(zone_data, found.ctx, query.options,
                                        requested_types) :
           additional' = [result |-> outcome.result, exc |-> outcome.exc,
                          requested_types |-> requested_types]
    /\ pc' = "additional"
    /\ UNCHANGED <<zone_data, query, found, target, nsec3>>
    /\ UNCHANGED sync_vars
    /\ UNCHANGED mgr_vars

\* The caller drops the result and is ready for the next query.
Release ==
    /\ pc \in {"found", "nsec3", "additional"}
    /\ pc' = "idle"
    /\ query' = NoQuery
    /\ found' = NoResult
    /\ target' = <<>>
    /\ nsec3' = NoNSEC3Result
    /\ additional' = NoAdditionalCall
    /\ UNCHANGED zone_data
    /\ UNCHANGED sync_vars
    /\ UNCHANGED mgr_vars

Next ==
    \/ /\ pc = "idle"
       /\ \E name \in QueryNames, type \in QueryTypes, options \in FindOptions :
              Find(name, type, options)
    \/ /\ pc = "idle"
       /\ \E name \in QueryNames, target_in \in TargetInputs,
             options \in FindOptions :
              FindAll(name, target_in, options)
    \/ /\ pc = "idle"
       /\ \E name \in QueryNames, recursive \in BOOLEAN :
              FindNSEC3(name, recursive)
    \/ Release

Spec == Init /\ [][Next]_vars

\* Lookups followed by additional-section processing, in the zones whose
\* record sets refer to names.
GlueQueryTypes == {"A", "NS", "MX"}

RequestedTypes == {{"A"}, {"A", "NS"}}

InitAdditional ==
    /\ zone_data \in GlueZones
    /\ pc = "idle"
    /\ query = NoQuery
    /\ found = NoResult
    /\ target = <<>>
    /\ nsec3 = NoNSEC3Result
    /\ additional = NoAdditionalCall
    /\ SyncConstructed
    /\ NoManager

NextAdditional ==
    \/ /\ pc = "idle"
       /\ \E name \in QueryNames, type \in GlueQueryTypes,
             options \in FindOptions :
              Find(name, type, options)
    \/ /\ pc = "idle"
       /\ \E name \in QueryNames, target_in \in TargetInputs,
             options \in FindOptions :
              FindAll(name, target_in, options)
    \/ \E requested_types \in RequestedTypes : GetAdditional(requested_types)
    \/ Release

SpecAdditional == InitAdditional /\ [][NextAdditional]_vars

(***************************************************************************)
(* Vocabulary of the properties: facts about the zone and the query that   *)
(* do not depend on how the lookup proceeds.                               *)
(***************************************************************************)
HasReturned == pc = "found" /\ found.exc = "none"

InZone(q) == IsPrefix(Origin, q)

\* Proper ancestors of q within the zone, the origin included.
Ancestors(q) == {SubSeq(q, 1, i) : i \in Len(Origin)..(Len(q) - 1)}

IsCut(z, c) == c \in z.nodes /\ c # Origin /\ HasType(z.data[c], "NS")

IsDnameNode(z, d) == d \in z.nodes /\ HasType(z.data[d], "DNAME")

\* Zone cuts and DNAME nodes strictly above q.
CutsAbove(z, q) == {c \in Ancestors(q) : IsCut(z, c)}

DnamesAbove(z, q) == {d \in Ancestors(q) : IsDnameNode(z, d)}

Highest(S) == CHOOSE n \in S : \A m \in S : Len(n) <= Len(m)

\* The name is a node of the tree or an empty non-terminal.
NameExists(z, q) == \E m \in z.nodes : IsPrefix(q, m)

\* The longest proper ancestor of q that exists in the zone.
ClosestEncloser(z, q) ==
    CHOOSE p \in Ancestors(q) :
        /\ NameExists(z, p)
        /\ \A r \in Ancestors(q) : NameExists(z, r) => Len(r) <= Len(p)

NSRRset(c) == [name |-> c, node |-> c, type |-> "NS"]

SameRRset(rrset, r) ==
    rrset.name = r.name /\ rrset.node = r.node /\ rrset.type = r.type

(***************************************************************************)
(* Properties                                                              *)
(***************************************************************************)

C2_Original ==
    (HasReturned /\ found.ctx.code = "DELEGATION") =>
        /\ \E c \in CutsAbove(zone_data, query.name) \cup {query.name} :
               IsCut(zone_data, c)
        /\ query.type # "DS"
        /\ "FIND_GLUE_OK" \notin query.options

\* C2 amended: DELEGATION comes with the NS of a zone cut that is the query
\* name or above it.  For the cut name itself the type is not DS and
\* FIND_GLUE_OK is not set; for a name below the cut, either FIND_GLUE_OK is
\* not set or the name has no node in the tree.  The type does not matter
\* below the cut.
C2_DelegationOnlyAtCut ==
    (HasReturned /\ found.ctx.code = "DELEGATION") =>
        \E c \in CutsAbove(zone_data, query.name) \cup {query.name} :
            /\ IsCut(zone_data, c)
            /\ SameRRset(found.ctx.rrset, NSRRset(c))
            /\ \/ /\ c = query.name
                  /\ query.type # "DS"
                  /\ "FIND_GLUE_OK" \notin query.options
               \/ /\ c # query.name
                  /\ \/ "FIND_GLUE_OK" \notin query.options
                     \/ query.name \notin zone_data.nodes

C2_Witness ==
    /\ HasReturned
    /\ found.ctx.code = "DELEGATION"
    /\ query.type = "DS"
    /\ "FIND_GLUE_OK" \in query.options
    /\ CutsAbove(zone_data, query.name) # {}

\* A zone cut the lookup reaches without FIND_GLUE_OK: the query name or an
\* ancestor of it, with no other cut and no DNAME above it.
ReachedCut(z, q, c) ==
    /\ IsCut(z, c)
    /\ IsPrefix(c, q)
    /\ CutsAbove(z, c) = {}
    /\ DnamesAbove(z, c) = {}

\* C3: when the lookup reaches a zone cut, the type is not DS and
\* FIND_GLUE_OK is not set, the result is DELEGATION with the NS of that cut.
C3_DelegationAtReachedCut ==
    (pc = "found" /\ query.type # "DS"
                  /\ "FIND_GLUE_OK" \notin query.options) =>
        \A c \in zone_data.nodes :
            ReachedCut(zone_data, query.name, c) =>
                /\ found.exc = "none"
                /\ found.ctx.code = "DELEGATION"
                /\ SameRRset(found.ctx.rrset, NSRRset(c))

C3_Witness ==
    /\ HasReturned
    /\ query.type = "A"
    /\ query.options = {}
    /\ ReachedCut(zone_data, query.name, query.name)
    /\ found.ctx.code = "DELEGATION"

\* C4 as stated: with FIND_GLUE_OK a query at or below a zone cut is never
\* answered with the cut's NS as a delegation.
C4_Original ==
    (HasReturned /\ "FIND_GLUE_OK" \in query.options
               /\ DnamesAbove(zone_data, query.name) = {}
               /\ \E c \in Ancestors(query.name) \cup {query.name} :
                      IsCut(zone_data, c)) =>
        found.ctx.code # "DELEGATION"

\* C4 amended: with FIND_GLUE_OK and no DNAME above the name, a query for a
\* name at or below a zone cut that has a node in the tree is answered from
\* that node (SUCCESS or CNAME with a record set of the node, or NXRRSET);
\* a name below the cut without a node gets DELEGATION with the NS of the
\* highest cut.
C4_GlueOkBelowCut ==
    (HasReturned /\ "FIND_GLUE_OK" \in query.options
               /\ DnamesAbove(zone_data, query.name) = {}
               /\ \E c \in Ancestors(query.name) \cup {query.name} :
                      IsCut(zone_data, c)) =>
        IF query.name \in zone_data.nodes
        THEN /\ found.ctx.code \in {"SUCCESS", "CNAME", "NXRRSET"}
             /\ found.ctx.code # "NXRRSET" =>
                    found.ctx.found_node = query.name
             /\ (query.op = "find" /\
                 HasType(zone_data.data[query.name], query.type)) =>
                    SameRRset(found.ctx.rrset,
                              [name |-> query.name, node |-> query.name,
                               type |-> query.type])
        ELSE /\ found.ctx.code = "DELEGATION"
             /\ SameRRset(found.ctx.rrset,
                          NSRRset(Highest(CutsAbove(zone_data, query.name))))

C4_Witness ==
    /\ HasReturned
    /\ "FIND_GLUE_OK" \in query.options
    /\ query.type = "A"
    /\ CutsAbove(zone_data, query.name) # {}
    /\ query.name \in zone_data.nodes
    /\ found.ctx.code = "SUCCESS"
    /\ found.ctx.rrset.node = query.name

\* The node matched by the lookup (exactly or through a wildcard), if any.
MatchedNode ==
    IF found.node_result.code = "SUCCESS" THEN found.node_result.node
    ELSE NULL

\* node is the "*" child of q's parent or of an ancestor of q's parent.
IsStarChildOfAncestor(node, q) ==
    /\ node # NULL
    /\ node[Len(node)] = "*"
    /\ SubSeq(node, 1, Len(node) - 1) \in Ancestors(q)

\* C5 as stated: RESULT_WILDCARD is set iff the answer node is the "*" child
\* of an ancestor of the query name, a query for the wildcard name included.
C5_Original ==
    HasReturned =>
        ("RESULT_WILDCARD" \in found.ctx.flags <=>
            IsStarChildOfAncestor(MatchedNode, query.name))

\* C5 amended: RESULT_WILDCARD is set iff the answer node is the "*" child of
\* an ancestor of the query name and is not the query name itself (a query
\* for the wildcard name is an ordinary exact match, without the flag).
C5_WildcardFlag ==
    HasReturned =>
        ("RESULT_WILDCARD" \in found.ctx.flags <=>
            /\ IsStarChildOfAncestor(MatchedNode, query.name)
            /\ MatchedNode # query.name)

C5_Witness ==
    /\ HasReturned
    /\ "RESULT_WILDCARD" \in found.ctx.flags
    /\ found.ctx.code = "SUCCESS"
    /\ IsStarChildOfAncestor(MatchedNode, query.name)

NsecSignedOnly(z) == isSigned(z) /\ ~isNSEC3Signed(z)

Negative == found.ctx.code \in {"NXDOMAIN", "NXRRSET"}

\* C6 as stated: in an NSEC-signed zone queried with FIND_DNSSEC every
\* NXDOMAIN, NXRRSET and wildcard result carries an NSEC record set.
C6_Original ==
    (HasReturned /\ NsecSignedOnly(zone_data)
                 /\ "FIND_DNSSEC" \in query.options
                 /\ (Negative \/ "RESULT_WILDCARD" \in found.ctx.flags)) =>
        found.ctx.rrset.type = "NSEC"

\* C6 amended: in an NSEC-signed zone queried with FIND_DNSSEC, every NXDOMAIN
\* result and every NXRRSET result for an empty name carries an NSEC record
\* set; an NXRRSET result at a non-empty node carries that node's NSEC if the
\* node has one and no record set otherwise (glue below a cut); a wildcard
\* SUCCESS or CNAME result carries the answer, not an NSEC.
C6_NsecWitness ==
    (HasReturned /\ NsecSignedOnly(zone_data)
                 /\ "FIND_DNSSEC" \in query.options) =>
        /\ found.ctx.code = "NXDOMAIN" => found.ctx.rrset.type = "NSEC"
        /\ found.ctx.code = "NXRRSET" =>
               IF MatchedNode = NULL \/ isEmpty(zone_data, MatchedNode)
               THEN found.ctx.rrset.type = "NSEC"
               ELSE IF HasType(zone_data.data[MatchedNode], "NSEC")
               THEN found.ctx.rrset.type = "NSEC" /\
                    found.ctx.rrset.node = MatchedNode
               ELSE found.ctx.rrset = NULL_RRSET
        /\ ("RESULT_WILDCARD" \in found.ctx.flags /\ ~Negative) =>
               found.ctx.rrset.type # "NSEC"

C6_Witness ==
    /\ HasReturned
    /\ NsecSignedOnly(zone_data)
    /\ "FIND_DNSSEC" \in query.options
    /\ found.ctx.code = "NXDOMAIN"
    /\ found.ctx.rrset.type = "NSEC"

\* C7: in an NSEC3-signed zone no result carries an NSEC record set, negative
\* results have no record set at all, RESULT_NSEC_SIGNED is never set and
\* RESULT_NSEC3_SIGNED is set on every NXDOMAIN, NXRRSET and wildcard result.
C7_Nsec3NoNsec ==
    (HasReturned /\ isNSEC3Signed(zone_data)) =>
        /\ found.ctx.rrset.type # "NSEC"
        /\ Negative => found.ctx.rrset = NULL_RRSET
        /\ "RESULT_NSEC_SIGNED" \notin found.ctx.flags
        /\ (Negative \/ "RESULT_WILDCARD" \in found.ctx.flags) =>
               "RESULT_NSEC3_SIGNED" \in found.ctx.flags

C7_Witness ==
    /\ HasReturned
    /\ isNSEC3Signed(zone_data)
    /\ isSigned(zone_data)
    /\ "FIND_DNSSEC" \in query.options
    /\ found.ctx.code = "NXDOMAIN"
    /\ "RESULT_NSEC3_SIGNED" \in found.ctx.flags

\* The name has no records of its own and is an ancestor of a name that has.
IsEmptyNonTerminal(z, q) ==
    /\ InZone(q)
    /\ q \in z.nodes => isEmpty(z, q)
    /\ \E m \in z.nodes : m # q /\ IsPrefix(q, m) /\ ~isEmpty(z, m)

NothingAbove(z, q) == CutsAbove(z, q) = {} /\ DnamesAbove(z, q) = {}

\* C8: a query for an empty non-terminal that is not below a zone cut or a
\* DNAME returns NXRRSET without RESULT_WILDCARD, whatever the type and also
\* when the search stops at a wildcard parent.
C8_EmptyNonTerminal ==
    (pc = "found" /\ IsEmptyNonTerminal(zone_data, query.name)
                  /\ NothingAbove(zone_data, query.name)) =>
        /\ found.exc = "none"
        /\ found.ctx.code = "NXRRSET"
        /\ "RESULT_WILDCARD" \notin found.ctx.flags

C8_Witness ==
    /\ HasReturned
    /\ IsEmptyNonTerminal(zone_data, query.name)
    /\ query.name \notin zone_data.nodes
    /\ WILDCARD_NODE(zone_data, found.node_result.node_path.node)
    /\ "NO_WILDCARD" \notin query.options
    /\ found.ctx.code = "NXRRSET"

Parent(q) == SubSeq(q, 1, Len(q) - 1)

\* The case of C9: the query name does not exist, its parent is an empty
\* non-terminal and its grandparent is a wildcard parent.
BelowEmptyNonTerminalBelowWildcard(z, q) ==
    /\ Len(q) >= Len(Origin) + 2
    /\ InZone(q)
    /\ ~NameExists(z, q)
    /\ IsEmptyNonTerminal(z, Parent(q))
    /\ WILDCARD_NODE(z, Parent(Parent(q)))
    /\ NothingAbove(z, q)

\* C9 as stated: such a query returns NXRRSET and is not answered from the
\* wildcard.
C9_Original ==
    (pc = "found" /\
     BelowEmptyNonTerminalBelowWildcard(zone_data, query.name)) =>
        /\ found.exc = "none"
        /\ found.ctx.code = "NXRRSET"
        /\ "RESULT_WILDCARD" \notin found.ctx.flags

\* C9 amended: such a query returns NXDOMAIN and is not answered from the
\* wildcard.
C9_BelowEmptyNonTerminal ==
    (pc = "found" /\
     BelowEmptyNonTerminalBelowWildcard(zone_data, query.name)) =>
        /\ found.exc = "none"
        /\ found.ctx.code = "NXDOMAIN"
        /\ "RESULT_WILDCARD" \notin found.ctx.flags

C9_Witness ==
    /\ HasReturned
    /\ BelowEmptyNonTerminalBelowWildcard(zone_data, query.name)
    /\ Parent(query.name) \notin zone_data.nodes
    /\ "NO_WILDCARD" \notin query.options
    /\ found.ctx.code = "NXDOMAIN"

\* The case of C10: the query name does not exist and its closest existing
\* ancestor is not a wildcard parent (it lies below one, or there is none).
ClosestEncloserNotWild(z, q) ==
    /\ InZone(q)
    /\ q # Origin
    /\ ~NameExists(z, q)
    /\ ~WILDCARD_NODE(z, ClosestEncloser(z, q))

\* C10 as stated: such a query returns NXDOMAIN without RESULT_WILDCARD.
C10_Original ==
    (pc = "found" /\ ClosestEncloserNotWild(zone_data, query.name)) =>
        /\ found.exc = "none"
        /\ found.ctx.code = "NXDOMAIN"
        /\ "RESULT_WILDCARD" \notin found.ctx.flags

\* C10 amended: such a query never has RESULT_WILDCARD; it returns NXDOMAIN
\* when no zone cut and no DNAME lies above the name, and DELEGATION or DNAME
\* when one does.
C10_WildcardOnlyAtClosestEncloser ==
    (pc = "found" /\ ClosestEncloserNotWild(zone_data, query.name)) =>
        /\ found.exc = "none"
        /\ "RESULT_WILDCARD" \notin found.ctx.flags
        /\ IF NothingAbove(zone_data, query.name)
           THEN found.ctx.code = "NXDOMAIN"
           ELSE found.ctx.code \in {"DELEGATION", "DNAME"}

C10_Witness ==
    /\ HasReturned
    /\ ClosestEncloserNotWild(zone_data, query.name)
    /\ "NO_WILDCARD" \notin query.options
    /\ \E w \in Ancestors(ClosestEncloser(zone_data, query.name)) :
           WILDCARD_NODE(zone_data, w)
    /\ found.node_result.node_path.relation = "COMMONANCESTOR"
    /\ found.ctx.code = "NXDOMAIN"

\* The case of wildcard synthesis: the query name does not exist, its closest
\* existing ancestor is a wildcard parent (so no name between the two exists
\* to cancel the wildcard), and no zone cut or DNAME lies above the name.
WildcardApplies(z, q) ==
    /\ InZone(q)
    /\ q # Origin
    /\ ~NameExists(z, q)
    /\ WILDCARD_NODE(z, ClosestEncloser(z, q))
    /\ NothingAbove(z, q)

\* C11: with NO_WILDCARD set no find() result carries RESULT_WILDCARD, and a
\* query that wildcard synthesis would answer returns NXDOMAIN.
C11_NoWildcard ==
    (pc = "found" /\ "NO_WILDCARD" \in query.options) =>
        /\ found.exc = "none" => "RESULT_WILDCARD" \notin found.ctx.flags
        /\ WildcardApplies(zone_data, query.name) =>
               /\ found.exc = "none"
               /\ found.ctx.code = "NXDOMAIN"
               /\ "FIND_WILDCARD" \notin found.node_result.flags

C11_Witness ==
    /\ HasReturned
    /\ "NO_WILDCARD" \in query.options
    /\ WildcardApplies(zone_data, query.name)
    /\ found.ctx.code = "NXDOMAIN"

\* The result code of a query of the given type matched exactly at the
\* non-empty or empty node w.
ExactMatchCode(z, w, op, type, options) ==
    IF isEmpty(z, w) THEN "NXRRSET"
    ELSE IF IsCut(z, w) /\ type # "DS" /\ "FIND_GLUE_OK" \notin options
    THEN "DELEGATION"
    ELSE IF op = "findAll" THEN "SUCCESS"
    ELSE IF HasType(z.data[w], type) THEN "SUCCESS"
    ELSE IF HasType(z.data[w], "CNAME") THEN "CNAME"
    ELSE "NXRRSET"

\* The wildcard name a query name is matched against.
WildcardOf(z, q) == Append(ClosestEncloser(z, q), "*")

\* Every returned record set (the answer and what findAll() pushed) is taken
\* from node w and owned by the name q.
AnswerOwnedBy(w, q) ==
    /\ found.ctx.rrset # NULL_RRSET =>
           found.ctx.rrset.node = w /\ found.ctx.rrset.name = q
    /\ \A i \in 1..Len(found.pushed) :
           found.pushed[i].node = w /\ found.pushed[i].name = q

\* The conclusion of C12 for the query in hand.
ClassifiedByWildcard ==
    LET w == WildcardOf(zone_data, query.name) IN
    /\ found.exc = "none"
    /\ "RESULT_WILDCARD" \in found.ctx.flags
    /\ found.ctx.code = ExactMatchCode(zone_data, w, query.op, query.type,
                                       query.options)
    /\ found.ctx.code \in {"SUCCESS", "CNAME", "DELEGATION"} =>
           /\ AnswerOwnedBy(w, query.name)
           /\ found.ctx.code = "SUCCESS" /\ query.op = "find" =>
                  found.ctx.rrset.type = query.type
           /\ found.ctx.code = "CNAME" => found.ctx.rrset.type = "CNAME"

\* C12 as stated: a query for a name that does not exist and whose closest
\* existing ancestor is a wildcard parent is classified against the records
\* of the wildcard, with RESULT_WILDCARD and record sets owned by the query
\* name, wherever the name lies in the zone.
C12_Original ==
    (pc = "found" /\ InZone(query.name) /\ query.name # Origin
                  /\ ~NameExists(zone_data, query.name)
                  /\ WILDCARD_NODE(zone_data,
                                   ClosestEncloser(zone_data, query.name))
                  /\ "NO_WILDCARD" \notin query.options) =>
        ClassifiedByWildcard

\* C12 amended: the same, for names with no zone cut and no DNAME above them.
C12_WildcardSynthesis ==
    (pc = "found" /\ WildcardApplies(zone_data, query.name)
                  /\ "NO_WILDCARD" \notin query.options) =>
        ClassifiedByWildcard

C12_Witness ==
    /\ HasReturned
    /\ WildcardApplies(zone_data, query.name)
    /\ "NO_WILDCARD" \notin query.options
    /\ found.ctx.code = "CNAME"
    /\ found.ctx.rrset.name = query.name
    /\ found.ctx.rrset.node = WildcardOf(zone_data, query.name)

DNAMERRset(d) == [name |-> d, node |-> d, type |-> "DNAME"]

\* C13 as stated: a query for any name strictly below a node with a DNAME
\* record set returns DNAME with that node's DNAME, never DELEGATION.
C13_Original ==
    (pc = "found" /\ DnamesAbove(zone_data, query.name) # {}) =>
        /\ found.exc = "none"
        /\ found.ctx.code = "DNAME"
        /\ \E d \in DnamesAbove(zone_data, query.name) :
               SameRRset(found.ctx.rrset, DNAMERRset(d))

\* C13 amended: for a name strictly below a DNAME node, the result is DNAME
\* with the record set of the highest such node when no zone cut lies above
\* that node or FIND_GLUE_OK is set (the apex with DNAME and NS included);
\* without FIND_GLUE_OK a zone cut above the DNAME node gives DELEGATION with
\* the NS of the highest cut.  The result does not depend on the type, on
\* whether the name exists, or on findAll().
C13_DnamePrecedence ==
    (pc = "found" /\ DnamesAbove(zone_data, query.name) # {}) =>
        LET d == Highest(DnamesAbove(zone_data, query.name)) IN
        /\ found.exc = "none"
        /\ found.pushed = <<>>
        /\ IF CutsAbove(zone_data, d) = {} \/ "FIND_GLUE_OK" \in query.options
           THEN /\ found.ctx.code = "DNAME"
                /\ SameRRset(found.ctx.rrset, DNAMERRset(d))
                /\ found.ctx.flags = {}
           ELSE /\ found.ctx.code = "DELEGATION"
                /\ SameRRset(found.ctx.rrset,
                             NSRRset(Highest(CutsAbove(zone_data, d))))

C13_Witness ==
    /\ HasReturned
    /\ DnamesAbove(zone_data, query.name) # {}
    /\ CutsAbove(zone_data, Highest(DnamesAbove(zone_data, query.name))) # {}
    /\ "FIND_GLUE_OK" \in query.options
    /\ query.name \in zone_data.nodes
    /\ found.node_result.node_path.state.zonecut_node_ # NULL
    /\ found.ctx.code = "DNAME"

\* The search reaches the name q: no DNAME lies above it and no zone cut
\* above it stops the search.
SearchReaches(z, q, options) ==
    /\ DnamesAbove(z, q) = {}
    /\ CutsAbove(z, q) = {} \/ "FIND_GLUE_OK" \in options

\* The answer is the record set of type t of the node q itself.
OwnRRset(q, t) == [name |-> q, node |-> q, type |-> t]

\* C14 as stated: a DS query for the name of a zone-cut node never returns
\* DELEGATION; it returns SUCCESS with the node's DS, else CNAME, else NXRRSET.
C14_Original ==
    (pc = "found" /\ query.type = "DS" /\ IsCut(zone_data, query.name)) =>
        /\ found.exc = "none"
        /\ found.ctx.code =
               ExactMatchCode(zone_data, query.name, "find", "DS", {})
        /\ found.ctx.code = "SUCCESS" =>
               SameRRset(found.ctx.rrset, OwnRRset(query.name, "DS"))

\* C14 amended: the same when the search reaches the node (no DNAME above it
\* and, unless FIND_GLUE_OK is set, no other zone cut above it); otherwise the
\* result is DNAME or DELEGATION with a record set of a node above.
C14_DsAtCut ==
    (pc = "found" /\ query.type = "DS" /\ IsCut(zone_data, query.name)) =>
        /\ found.exc = "none"
        /\ IF SearchReaches(zone_data, query.name, query.options)
           THEN /\ found.ctx.code =
                       ExactMatchCode(zone_data, query.name, "find", "DS", {})
                /\ found.ctx.code = "SUCCESS" =>
                       SameRRset(found.ctx.rrset, OwnRRset(query.name, "DS"))
                /\ found.ctx.code = "CNAME" =>
                       SameRRset(found.ctx.rrset,
                                 OwnRRset(query.name, "CNAME"))
           ELSE /\ found.ctx.code \in {"DNAME", "DELEGATION"}
                /\ found.ctx.rrset.node \in Ancestors(query.name)

C14_Witness ==
    /\ HasReturned
    /\ query.type = "DS"
    /\ IsCut(zone_data, query.name)
    /\ "FIND_GLUE_OK" \notin query.options
    /\ found.ctx.code = "SUCCESS"
    /\ SameRRset(found.ctx.rrset, OwnRRset(query.name, "DS"))

\* An exact match at the node is turned into a delegation.
TurnedIntoDelegation(z, n, type, options) ==
    IsCut(z, n) /\ type # "DS" /\ "FIND_GLUE_OK" \notin options

\* C15: a find() query that matches a non-empty node (exactly or through a
\* wildcard) and is not turned into a delegation returns SUCCESS with the
\* node's record set of the requested type if there is one, otherwise CNAME
\* with the node's CNAME if there is one, otherwise NXRRSET.
C15_TypeCnameNxrrset ==
    (HasReturned /\ query.op = "find" /\ MatchedNode # NULL
                 /\ ~isEmpty(zone_data, MatchedNode)
                 /\ ~TurnedIntoDelegation(zone_data, MatchedNode, query.type,
                                          query.options)) =>
        LET types == zone_data.data[MatchedNode] IN
        IF HasType(types, query.type)
        THEN /\ found.ctx.code = "SUCCESS"
             /\ found.ctx.rrset.node = MatchedNode
             /\ found.ctx.rrset.type = query.type
        ELSE IF HasType(types, "CNAME")
        THEN /\ found.ctx.code = "CNAME"
             /\ found.ctx.rrset.node = MatchedNode
             /\ found.ctx.rrset.type = "CNAME"
        ELSE found.ctx.code = "NXRRSET"

C15_Witness ==
    /\ HasReturned
    /\ query.op = "find"
    /\ MatchedNode = query.name
    /\ HasType(zone_data.data[MatchedNode], "CNAME")
    /\ HasType(zone_data.data[MatchedNode], query.type)
    /\ found.ctx.code = "SUCCESS"
    /\ found.ctx.rrset.type = query.type

\* C16: findAll() on a matched non-empty node that is not a delegation
\* appends one record set per record set of the node to the target, in list
\* order and after what the target held, and returns SUCCESS with no answer
\* record set and the matched node as found node; in every other outcome the
\* target is left as it was.
C16_FindAllTarget ==
    (pc = "found" /\ query.op = "findAll") =>
        IF /\ found.exc = "none"
           /\ MatchedNode # NULL
           /\ ~isEmpty(zone_data, MatchedNode)
           /\ ~TurnedIntoDelegation(zone_data, MatchedNode, "ANY",
                                    query.options)
        THEN LET types == zone_data.data[MatchedNode]
                 before == Len(query.target)
             IN  /\ found.ctx.code = "SUCCESS"
                 /\ found.ctx.rrset = NULL_RRSET
                 /\ found.ctx.found_node = MatchedNode
                 /\ Len(target) = before + Len(types)
                 /\ SubSeq(target, 1, before) = query.target
                 /\ \A i \in 1..Len(types) :
                        /\ target[before + i].type = types[i]
                        /\ target[before + i].node = MatchedNode
                        /\ target[before + i].name = query.name
        ELSE /\ target = query.target
             /\ found.exc \in {"none", "OutOfZone"}
             /\ found.exc = "none" =>
                    found.ctx.code \in
                        {"NXDOMAIN", "NXRRSET", "DELEGATION", "DNAME"}

C16_Witness ==
    /\ HasReturned
    /\ query.op = "findAll"
    /\ query.target # <<>>
    /\ found.ctx.code = "SUCCESS"
    /\ Len(zone_data.data[found.ctx.found_node]) >= 2
    /\ Len(target) = Len(query.target) + Len(zone_data.data[MatchedNode])

\* C17: findNSEC3() on a zone that is not NSEC3-signed raises DataSourceError
\* for every name, also one out of the zone; on an NSEC3-signed zone it
\* raises OutOfZone exactly when the name is neither the origin nor below it;
\* in both cases no hash is looked up.
C17_Nsec3Errors ==
    pc = "nsec3" =>
        /\ ~isNSEC3Signed(zone_data) =>
               nsec3.exc = "DataSourceError" /\ nsec3.lookups = <<>>
        /\ isNSEC3Signed(zone_data) =>
               (nsec3.exc = "OutOfZone" <=> ~InZone(query.name))
        /\ nsec3.exc = "OutOfZone" => nsec3.lookups = <<>>
        /\ (isNSEC3Signed(zone_data) /\ InZone(query.name)) =>
               nsec3.lookups # <<>>

C17_Witness ==
    /\ pc = "nsec3"
    /\ ~isNSEC3Signed(zone_data)
    /\ ~InZone(query.name)
    /\ nsec3.exc = "DataSourceError"

NSEC3Returned == pc = "nsec3" /\ nsec3.exc = "none"

\* The hash of the query name stripped to the given number of labels (the
\* root label counted, as getLabelCount() does).
HashAt(labels) == NSEC3Hash(SubSeq(query.name, 1, labels - 1))

\* The NSEC3 that covers a hash not in the tree: the one at the nearest
\* smaller hash, or at the largest hash when no stored hash is smaller.
Covering(tree, hash) ==
    IF predecessor(tree, hash) # NULL_NODE THEN predecessor(tree, hash)
    ELSE getLargestInSubTree(tree)

\* Label counts of the suffixes of the query name whose hash is in the tree.
MatchingLabels ==
    {l \in getLabelCount(Origin)..getLabelCount(query.name) :
        HashAt(l) \in zone_data.nsec3_tree}

Largest(S) == CHOOSE m \in S : \A k \in S : k <= m

\* C18: a recursive findNSEC3() that returns has matched = TRUE,
\* closest_labels the largest label count L whose hash is in the NSEC3 tree
\* and closest_proof the NSEC3 at that hash; next_proof is null iff L is the
\* label count of the query name, and otherwise is the NSEC3 covering the
\* hash of the name with L + 1 labels.
C18_RecursiveClosestEncloser ==
    (NSEC3Returned /\ query.recursive) =>
        /\ nsec3.matched
        /\ MatchingLabels # {}
        /\ LET L == Largest(MatchingLabels) IN
           /\ nsec3.closest_labels = L
           /\ nsec3.closest_proof = createNSEC3RRset(HashAt(L))
           /\ nsec3.next_proof = NULL_NSEC3 <=>
                  L = getLabelCount(query.name)
           /\ L < getLabelCount(query.name) =>
                  nsec3.next_proof =
                      createNSEC3RRset(Covering(zone_data.nsec3_tree,
                                                HashAt(L + 1)))

\* C19: a non-recursive findNSEC3() looks up one hash, of the full query
\* name; it returns closest_labels = qlabels and a null next_proof, with
\* matched = TRUE and the matching NSEC3 if that hash is in the tree, and
\* matched = FALSE and the covering NSEC3 otherwise; it never raises the
\* broken-zone error.
C19_NonRecursive ==
    (pc = "nsec3" /\ ~query.recursive /\ isNSEC3Signed(zone_data)
                  /\ InZone(query.name)) =>
        LET qlabels == getLabelCount(query.name) IN
        /\ nsec3.exc = "none"
        /\ nsec3.lookups = <<qlabels>>
        /\ nsec3.closest_labels = qlabels
        /\ nsec3.next_proof = NULL_NSEC3
        /\ IF HashAt(qlabels) \in zone_data.nsec3_tree
           THEN /\ nsec3.matched
                /\ nsec3.closest_proof = createNSEC3RRset(HashAt(qlabels))
           ELSE /\ ~nsec3.matched
                /\ nsec3.closest_proof =
                       createNSEC3RRset(Covering(zone_data.nsec3_tree,
                                                 HashAt(qlabels)))

\* A step of getAdditional() on a Context.
AdditionalStep == pc = "found" /\ pc' = "additional"

\* The record set comes from a lookup of its name that ended in SUCCESS at
\* its node.
FromSuccessfulLookup(z, rrset) ==
    /\ InZone(rrset.name)
    /\ \E options \in SUBSET {"FIND_GLUE_OK", "FIND_DNSSEC"} :
           /\ findNode(z, rrset.name, options, NULL).exc = "none"
           /\ findNode(z, rrset.name, options, NULL).code = "SUCCESS"
           /\ findNode(z, rrset.name, options, NULL).node = rrset.node

\* C20: getAdditional() leaves the code, the answer record set and the flags
\* of its Context as they were and always returns normally; no OutOfZone
\* escapes it, and every record set it appends comes from the lookup of a
\* name in the zone that ended in SUCCESS.
C20_AdditionalFrame ==
    [][AdditionalStep =>
          /\ found'.ctx.code = found.ctx.code
          /\ found'.ctx.rrset = found.ctx.rrset
          /\ found'.ctx.flags = found.ctx.flags
          /\ additional'.exc = "none"
          /\ \A i \in 1..Len(additional'.result) :
                 FromSuccessfulLookup(zone_data, additional'.result[i])]_vars

\* C22: when the hash looked up by findNSEC3() is not in the non-empty NSEC3
\* tree, the covering node selected, which is returned as closest_proof by
\* a non-recursive call and as next_proof by a recursive call that matched a
\* shorter name, is the NSEC3 at the nearest smaller stored hash, or at the
\* largest stored hash when no stored hash is smaller; it is never null.
C22_CoveringNode ==
    (NSEC3Returned /\ zone_data.nsec3_tree # {}) =>
        /\ (~query.recursive /\ ~nsec3.matched) =>
               /\ nsec3.closest_proof # NULL_NSEC3
               /\ nsec3.closest_proof =
                      createNSEC3RRset(
                          Covering(zone_data.nsec3_tree,
                                   HashAt(getLabelCount(query.name))))
        /\ (query.recursive /\ nsec3.matched
                /\ nsec3.closest_labels < getLabelCount(query.name)) =>
               /\ nsec3.next_proof # NULL_NSEC3
               /\ nsec3.next_proof =
                      createNSEC3RRset(
                          Covering(zone_data.nsec3_tree,
                                   HashAt(nsec3.closest_labels + 1)))


\* The answer was synthesised from a wildcard: it was taken from the "*"
\* child of an ancestor of the query name, which is not the query name.
WildcardSynthesis ==
    /\ IsStarChildOfAncestor(MatchedNode, query.name)
    /\ MatchedNode # query.name

\* The flag that tells how the zone is signed.
SigningFlag(z) ==
    IF isNSEC3Signed(z) THEN {"RESULT_NSEC3_SIGNED"}
    ELSE IF isSigned(z) THEN {"RESULT_NSEC_SIGNED"}
    ELSE {}

\* C23: the flags of a find() result are determined by the result code, the
\* wildcard outcome and the signing of the zone, whatever the options:
\* RESULT_WILDCARD iff the answer was synthesised from a wildcard; for
\* NXRRSET, NXDOMAIN and every wildcard outcome the flag of the zone's signing
\* (NSEC3 before NSEC, never both); no flag on a SUCCESS, CNAME, DNAME or
\* DELEGATION without wildcard.
C23_ResultFlags ==
    HasReturned =>
        /\ found.ctx.flags =
               (IF WildcardSynthesis THEN {"RESULT_WILDCARD"} ELSE {}) \cup
               (IF Negative \/ WildcardSynthesis THEN SigningFlag(zone_data)
                ELSE {})
        /\ ~({"RESULT_NSEC_SIGNED", "RESULT_NSEC3_SIGNED"}
                 \subseteq found.ctx.flags)
        /\ (~WildcardSynthesis /\ ~Negative) => found.ctx.flags = {}

C23_Witness ==
    /\ HasReturned
    /\ "FIND_DNSSEC" \notin query.options
    /\ isSigned(zone_data) /\ isNSEC3Signed(zone_data)
    /\ found.ctx.code = "SUCCESS"
    /\ WildcardSynthesis
    /\ found.ctx.flags = {"RESULT_WILDCARD", "RESULT_NSEC3_SIGNED"}


\* The nodes before the name in the order of the tree that are not empty and
\* have an NSEC.
NsecNodesBefore(z, q) ==
    {n \in z.nodes : /\ NameLess(n, q)
                     /\ z.data[n] # <<>>
                     /\ HasType(z.data[n], "NSEC")}

\* C24: for an NXDOMAIN result and for the NXRRSET result of an empty
\* non-terminal, in an NSEC-signed zone without NSEC3 queried with
\* FIND_DNSSEC, the record set returned is the NSEC of the nearest node
\* before the query name that is not empty and has an NSEC; in an unsigned
\* or NSEC3-signed zone and without FIND_DNSSEC no record set is returned
\* and no node is taken from a walk over the preceding nodes.
C24_ClosestNsec ==
    (HasReturned /\ (\/ found.ctx.code = "NXDOMAIN"
                     \/ /\ found.ctx.code = "NXRRSET"
                        /\ IsEmptyNonTerminal(zone_data, query.name))) =>
        IF NsecSignedOnly(zone_data) /\ "FIND_DNSSEC" \in query.options
        THEN /\ NsecNodesBefore(zone_data, query.name) # {}
             /\ found.ctx.rrset =
                    [name |-> Nearest(NsecNodesBefore(zone_data, query.name)),
                     node |-> Nearest(NsecNodesBefore(zone_data, query.name)),
                     type |-> "NSEC", dnssec |-> TRUE]
        ELSE /\ found.ctx.rrset = NULL_RRSET
             /\ ~getClosestNSEC(zone_data, found.node_result.node_path,
                                query.options).assigned

\* An NXDOMAIN whose NSEC is not at the node just before the query name:
\* that node has no NSEC or is empty.
C24_Witness ==
    /\ HasReturned
    /\ found.ctx.code = "NXDOMAIN"
    /\ NsecSignedOnly(zone_data)
    /\ "FIND_DNSSEC" \in query.options
    /\ found.ctx.rrset.type = "NSEC"
    /\ found.ctx.rrset.node #
           Nearest(PreviousNodes(zone_data, found.node_result.node_path))


\* The query name matched a node, directly or through a wildcard, and that
\* node is empty.
MatchedEmptyNode ==
    /\ HasReturned
    /\ MatchedNode # NULL
    /\ isEmpty(zone_data, MatchedNode)

\* C25 as stated: a match of an empty node gives NXRRSET with the NSEC found
\* on the matched node itself.
C25_Original ==
    MatchedEmptyNode =>
        /\ found.ctx.code = "NXRRSET"
        /\ found.ctx.rrset =
               createTreeNodeRRset(MatchedNode,
                                   getNSECForNXRRSET(zone_data, query.options,
                                                     MatchedNode),
                                   query.options, NULL)

\* C25 amended: a match of an empty node gives NXRRSET; in an NSEC-signed
\* zone without NSEC3 queried with FIND_DNSSEC the record set returned is the
\* NSEC of the nearest node before the matched node that is not empty and has
\* an NSEC, never one of the matched node, which has no record sets; in
\* every other case no record set is returned.
C25_EmptyNodeNxrrset ==
    MatchedEmptyNode =>
        /\ found.ctx.code = "NXRRSET"
        /\ IF NsecSignedOnly(zone_data) /\ "FIND_DNSSEC" \in query.options
           THEN /\ NsecNodesBefore(zone_data, MatchedNode) # {}
                /\ found.ctx.rrset.type = "NSEC"
                /\ found.ctx.rrset.node =
                       Nearest(NsecNodesBefore(zone_data, MatchedNode))
                /\ found.ctx.rrset.node # MatchedNode
           ELSE found.ctx.rrset = NULL_RRSET

\* An empty wildcard node matched by a name below its parent, with the NSEC of
\* an earlier node.
C25_Witness ==
    /\ MatchedEmptyNode
    /\ WildcardSynthesis
    /\ found.ctx.code = "NXRRSET"
    /\ found.ctx.rrset.type = "NSEC"
    /\ found.ctx.rrset.node # MatchedNode


\* The zone cuts at or above the query name.
CutsOnPath(z, q) ==
    CutsAbove(z, q) \cup (IF IsCut(z, q) THEN {q} ELSE {})

\* The FindState the tree search of the last find() ended with.
SearchState == found.node_result.node_path.state

\* C26: of several nested zone cuts above the query name only the one closest
\* to the apex counts, with and without FIND_GLUE_OK: it is the zone-cut node
\* the callback records, with its NS unless a DNAME is met afterwards, and
\* every DELEGATION result reports its NS; with FIND_GLUE_OK the cuts below
\* it do not stop the descent, which reaches the node of the query name.
C26_HighestCutOnly ==
    HasReturned =>
        /\ (/\ CutsAbove(zone_data, query.name) # {}
            /\ DnamesAbove(zone_data,
                           Highest(CutsAbove(zone_data, query.name))) = {}) =>
               /\ SearchState.zonecut_node_ =
                      Highest(CutsAbove(zone_data, query.name))
               /\ SearchState.dname_node_ = NULL =>
                      SearchState.rrset_ =
                          [node |-> Highest(CutsAbove(zone_data, query.name)),
                           type |-> "NS"]
        /\ found.ctx.code = "DELEGATION" =>
               /\ CutsOnPath(zone_data, query.name) # {}
               /\ SameRRset(found.ctx.rrset,
                            NSRRset(Highest(CutsOnPath(zone_data,
                                                       query.name))))
        /\ (/\ "FIND_GLUE_OK" \in query.options
            /\ query.name \in zone_data.nodes
            /\ DnamesAbove(zone_data, query.name) = {}) =>
               /\ found.node_result.code = "SUCCESS"
               /\ found.node_result.node = query.name

\* With FIND_GLUE_OK, a name that does not exist below two nested cuts: a
\* DELEGATION with the NS of the upper cut.
C26_Witness ==
    /\ HasReturned
    /\ "FIND_GLUE_OK" \in query.options
    /\ Cardinality(CutsAbove(zone_data, query.name)) >= 2
    /\ found.ctx.code = "DELEGATION"
    /\ found.ctx.rrset.node = Highest(CutsAbove(zone_data, query.name))


AdditionalReturned == pc = "additional" /\ additional.exc = "none"

\* The record sets whose rdata getAdditional() reads: the record set found,
\* or every record set of the found node when none was.
SourceRRsets ==
    IF found.ctx.found_rdset # NULL_RDSET THEN {found.ctx.found_rdset}
    ELSE IF found.ctx.found_node \in zone_data.nodes
    THEN {[node |-> found.ctx.found_node, type |-> t] :
             t \in Range(zone_data.data[found.ctx.found_node])}
    ELSE {}

\* The record set s refers to the name, marked for additional processing.
RefersTo(s, name) ==
    \E i \in 1..Len(RdataNames(s)) :
        /\ RdataNames(s)[i].name = name
        /\ "NAMEATTR_ADDITIONAL" \in RdataNames(s)[i].attr

\* The record set is at a non-origin node with the callback flag or at a name
\* below a zone cut.
AtOrBelowCut(z, rrset) ==
    \/ rrset.node # Origin /\ FLAG_CALLBACK(z, rrset.node)
    \/ CutsAbove(z, rrset.name) # {}
    \/ CutsAbove(z, rrset.node) # {}

\* C27: every record set getAdditional() appends has a requested type, is
\* owned by a name in the zone that a source record set refers to with the
\* mark for additional processing (also when the name was matched through a
\* wildcard node), and is at or below a non-origin zone cut only if an NS
\* record set refers to its name.
C27_GlueOnlyForNs ==
    AdditionalReturned =>
        \A i \in 1..Len(additional.result) :
            /\ additional.result[i].type \in additional.requested_types
            /\ InZone(additional.result[i].name)
            /\ \E s \in SourceRRsets : RefersTo(s, additional.result[i].name)
            /\ \/ additional.result[i].node = additional.result[i].name
               \/ /\ IsStarChildOfAncestor(additional.result[i].node,
                                           additional.result[i].name)
                  /\ additional.result[i].name \notin zone_data.nodes
            /\ AtOrBelowCut(zone_data, additional.result[i]) =>
                   \E s \in SourceRRsets :
                       /\ s.type = "NS"
                       /\ RefersTo(s, additional.result[i].name)

\* Additional processing of an MX record set that refers to a name below a
\* cut with an address (left out) and to a name matched by a wildcard
\* (appended under the name referred to).
C27_Witness ==
    /\ AdditionalReturned
    /\ found.ctx.found_rdset.type = "MX"
    /\ additional.requested_types = {"A"}
    /\ \E n \in zone_data.nodes :
           /\ CutsAbove(zone_data, n) # {}
           /\ HasType(zone_data.data[n], "A")
           /\ RefersTo(found.ctx.found_rdset, n)
    /\ \E i \in 1..Len(additional.result) :
           additional.result[i].node # additional.result[i].name


\* C28: a recursive findNSEC3() on an NSEC3-signed zone, for a name in the
\* zone, hashes the name stripped to qlabels, qlabels - 1, ... labels in that
\* order, at most down to the label count of the origin (qlabels - olabels + 1
\* lookups), and stops at the first hash that is in the NSEC3 tree; if none
\* is, not even the origin's, it raises DataSourceError and returns nothing.
C28_RecursiveTerminates ==
    (pc = "nsec3" /\ query.recursive /\ isNSEC3Signed(zone_data)
                  /\ InZone(query.name)) =>
        LET qlabels == getLabelCount(query.name)
            olabels == getLabelCount(Origin)
            n       == Len(nsec3.lookups)
        IN  /\ n >= 1
            /\ n <= qlabels - olabels + 1
            /\ \A i \in 1..n : nsec3.lookups[i] = qlabels + 1 - i
            /\ \A i \in 1..(n - 1) :
                   HashAt(nsec3.lookups[i]) \notin zone_data.nsec3_tree
            /\ IF MatchingLabels # {}
               THEN /\ nsec3.exc = "none"
                    /\ HashAt(nsec3.lookups[n]) \in zone_data.nsec3_tree
                    /\ nsec3.closest_labels = nsec3.lookups[n]
               ELSE /\ nsec3.exc = "DataSourceError"
                    /\ n = qlabels - olabels + 1
                    /\ nsec3.closest_proof = NULL_NSEC3
                    /\ nsec3.next_proof = NULL_NSEC3

\* A zone whose NSEC3 chain lacks the origin: every suffix of the name is
\* hashed and the call ends with the error.
C28_Witness ==
    /\ pc = "nsec3"
    /\ query.recursive
    /\ isNSEC3Signed(zone_data)
    /\ nsec3.exc = "DataSourceError"
    /\ Len(nsec3.lookups) >= 3


\* C29: the found node kept in the Context is null or a node of the zone,
\* never an unassigned value, also for negative results for which no NSEC is
\* looked up; getAdditional() goes through all record sets of the found node
\* (no record set found, a found node) only after a successful findAll(); for
\* an NXDOMAIN or NXRRSET result it appends nothing.
C29_AllRecordSetsOnlyForAny ==
    (pc \in {"found", "additional"} /\ found.exc = "none") =>
        /\ found.ctx.found_node \in zone_data.nodes \cup {NULL}
        /\ (/\ pc = "additional"
            /\ found.ctx.found_rdset = NULL_RDSET
            /\ found.ctx.found_node # NULL) =>
               query.op = "findAll" /\ found.ctx.code = "SUCCESS"
        /\ (pc = "additional" /\ Negative) => additional.result = <<>>


(***************************************************************************)
(* Mutex and CondVar (util/threads/sync.cc)                                *)
(*                                                                         *)
(* A step is one access to the counter or one pthread call.  A failing     *)
(* assert() ends the process: no thread takes a step afterwards.           *)
(***************************************************************************)

\* The width of size_t: the smallest one the language allows.  The counter
\* wraps when it is decremented below 0.
SizeBits == 16

SizeModulus == 2^SizeBits

\* Results of the pthread calls.
EPERM == 1

Aborted == \E t \in Threads : thread[t].pc = "abort"

\* ++impl_->locked_count
postLockAction_increment(count) == (count + 1) % SizeModulus

\* --impl_->locked_count
preUnlockAction_keepCount(count) == count

preUnlockAction_decrement(count) == (count - 1) % SizeModulus

\* A thread enters Mutex::lock(), as the constructor of a Mutex::Locker does.
LockCall(t) ==
    /\ ~Aborted
    /\ thread[t].pc = "idle"
    /\ thread' = [thread EXCEPT ![t].pc = "pthread_mutex_lock",
                                ![t].call = "lock",
                                ![t].exc = "none"]
    /\ UNCHANGED <<locked_count, mutex, cond_waiters, foreign_wait>>
    /\ UNCHANGED finder_vars
    /\ UNCHANGED mgr_vars

\* pthread_mutex_lock() on the error-checking mutex: blocks while another
\* thread holds it, fails for the thread that holds it already.
MutexLock(t) ==
    /\ ~Aborted
    /\ thread[t].pc = "pthread_mutex_lock"
    /\ \/ /\ mutex = t
          /\ thread' = [thread EXCEPT ![t].pc = "idle",
                                      ![t].exc = "InvalidOperation"]
          /\ UNCHANGED mutex
       \/ /\ mutex = NoThread
          /\ mutex' = t
          /\ thread' = [thread EXCEPT ![t].pc = "post_assert"]
    /\ UNCHANGED <<locked_count, cond_waiters, foreign_wait>>
    /\ UNCHANGED finder_vars
    /\ UNCHANGED mgr_vars

\* Mutex::postLockAction(): assert(impl_->locked_count == 0)
PostLockAssert(t) ==
    /\ ~Aborted
    /\ thread[t].pc = "post_assert"
    /\ thread' = [thread EXCEPT ![t].pc =
                      IF locked_count = 0 THEN "post_increment" ELSE "abort"]
    /\ UNCHANGED <<locked_count, mutex, cond_waiters, foreign_wait>>
    /\ UNCHANGED finder_vars
    /\ UNCHANGED mgr_vars

\* Mutex::postLockAction(): the increment, and the return of lock() or the
\* rest of CondVar::wait().
PostLockIncrement(t) ==
    /\ ~Aborted
    /\ thread[t].pc = "post_increment"
    /\ locked_count' = postLockAction_increment(locked_count)
    /\ thread' = [thread EXCEPT
           ![t].pc = "idle",
           ![t].locker = IF thread[t].call = "lock" THEN TRUE ELSE @,
           ![t].exc = IF thread[t].call = "wait" /\ thread[t].result # 0
                      THEN "BadValue" ELSE "none"]
    /\ UNCHANGED <<mutex, cond_waiters, foreign_wait>>
    /\ UNCHANGED finder_vars
    /\ UNCHANGED mgr_vars

\* A thread enters Mutex::unlock(), as the destructor of its Mutex::Locker
\* does.
UnlockCall(t) ==
    /\ ~Aborted
    /\ thread[t].pc = "idle"
    /\ thread[t].locker
    /\ thread' = [thread EXCEPT ![t].pc = "pre_test",
                                ![t].call = "unlock",
                                ![t].exc = "none"]
    /\ UNCHANGED <<locked_count, mutex, cond_waiters, foreign_wait>>
    /\ UNCHANGED finder_vars
    /\ UNCHANGED mgr_vars

\* A thread enters CondVar::wait(), with or without a Locker.
WaitCall(t) ==
    /\ ~Aborted
    /\ thread[t].pc = "idle"
    /\ thread' = [thread EXCEPT ![t].pc = "pre_test",
                                ![t].call = "wait",
                                ![t].result = 0,
                                ![t].exc = "none"]
    /\ UNCHANGED <<locked_count, mutex, cond_waiters, foreign_wait>>
    /\ UNCHANGED finder_vars
    /\ UNCHANGED mgr_vars

\* Mutex::preUnlockAction(throw_ok): the test of the counter.  throw_ok is
\* true in CondVar::wait() and false in Mutex::unlock().
PreUnlockTest(t) ==
    /\ ~Aborted
    /\ thread[t].pc = "pre_test"
    /\ LET throw_ok == thread[t].call = "wait"
       IN  /\ thread' = [thread EXCEPT
                  ![t].pc = IF locked_count = 0
                            THEN IF throw_ok THEN "idle" ELSE "abort"
                            ELSE "pre_decrement",
                  ![t].exc = IF locked_count = 0 /\ throw_ok
                             THEN "InvalidOperation" ELSE @]
           /\ foreign_wait' =
                  (foreign_wait
                   \/ (throw_ok /\ locked_count # 0 /\ ~thread[t].locker))
    /\ UNCHANGED <<locked_count, mutex, cond_waiters>>
    /\ UNCHANGED finder_vars
    /\ UNCHANGED mgr_vars

\* Mutex::preUnlockAction(): the decrement.
PreUnlockDecrement(t) ==
    /\ ~Aborted
    /\ thread[t].pc = "pre_decrement"
    /\ locked_count' = preUnlockAction_decrement(locked_count)
    /\ thread' = [thread EXCEPT ![t].pc =
                      IF thread[t].call = "wait" THEN "pthread_cond_wait"
                      ELSE "pthread_mutex_unlock"]
    /\ UNCHANGED <<mutex, cond_waiters, foreign_wait>>
    /\ UNCHANGED finder_vars
    /\ UNCHANGED mgr_vars

\* Mutex::unlock(): pthread_mutex_unlock() and assert(result == 0).  The
\* error-checking mutex refuses a thread that does not hold it.
MutexUnlock(t) ==
    /\ ~Aborted
    /\ thread[t].pc = "pthread_mutex_unlock"
    /\ IF mutex = t
       THEN /\ mutex' = NoThread
            /\ thread' = [thread EXCEPT ![t].pc = "idle",
                                        ![t].locker = FALSE]
       ELSE /\ thread' = [thread EXCEPT ![t].pc = "abort"]
            /\ UNCHANGED mutex
    /\ UNCHANGED <<locked_count, cond_waiters, foreign_wait>>
    /\ UNCHANGED finder_vars
    /\ UNCHANGED mgr_vars

\* CondVar::wait(): pthread_cond_wait() releases the mutex and blocks the
\* thread in one step; it fails with EPERM for a thread that does not hold
\* the error-checking mutex.
CondWait(t) ==
    /\ ~Aborted
    /\ thread[t].pc = "pthread_cond_wait"
    /\ IF mutex = t
       THEN /\ mutex' = NoThread
            /\ cond_waiters' = cond_waiters \cup {t}
            /\ thread' = [thread EXCEPT ![t].pc = "blocked"]
       ELSE /\ thread' = [thread EXCEPT ![t].pc = "post_assert",
                                        ![t].result = EPERM]
            /\ UNCHANGED <<mutex, cond_waiters>>
    /\ UNCHANGED <<locked_count, foreign_wait>>
    /\ UNCHANGED finder_vars
    /\ UNCHANGED mgr_vars

\* CondVar::signal(): pthread_cond_signal() unblocks one of the waiting
\* threads, if there is one.
Signal(t) ==
    /\ ~Aborted
    /\ thread[t].pc = "idle"
    /\ \E w \in cond_waiters :
           /\ cond_waiters' = cond_waiters \ {w}
           /\ thread' = [thread EXCEPT ![w].pc = "reacquire"]
    /\ UNCHANGED <<locked_count, mutex, foreign_wait>>
    /\ UNCHANGED finder_vars
    /\ UNCHANGED mgr_vars

\* pthread_cond_wait() may wake up without a signal.
SpuriousWakeup(t) ==
    /\ ~Aborted
    /\ t \in cond_waiters
    /\ cond_waiters' = cond_waiters \ {t}
    /\ thread' = [thread EXCEPT ![t].pc = "reacquire"]
    /\ UNCHANGED <<locked_count, mutex, foreign_wait>>
    /\ UNCHANGED finder_vars
    /\ UNCHANGED mgr_vars

\* pthread_cond_wait() takes the mutex again before it returns 0.
Reacquire(t) ==
    /\ ~Aborted
    /\ thread[t].pc = "reacquire"
    /\ mutex = NoThread
    /\ mutex' = t
    /\ thread' = [thread EXCEPT ![t].pc = "post_assert", ![t].result = 0]
    /\ UNCHANGED <<locked_count, cond_waiters, foreign_wait>>
    /\ UNCHANGED finder_vars
    /\ UNCHANGED mgr_vars

InitSync ==
    /\ zone_data = NULL
    /\ pc = "idle"
    /\ query = NoQuery
    /\ found = NoResult
    /\ target = <<>>
    /\ nsec3 = NoNSEC3Result
    /\ additional = NoAdditionalCall
    /\ SyncConstructed
    /\ NoManager

NextSync ==
    \/ \E t \in Threads : LockCall(t)
    \/ \E t \in Threads : MutexLock(t)
    \/ \E t \in Threads : PostLockAssert(t)
    \/ \E t \in Threads : PostLockIncrement(t)
    \/ \E t \in Threads : UnlockCall(t)
    \/ \E t \in Threads : WaitCall(t)
    \/ \E t \in Threads : PreUnlockTest(t)
    \/ \E t \in Threads : PreUnlockDecrement(t)
    \/ \E t \in Threads : MutexUnlock(t)
    \/ \E t \in Threads : CondWait(t)
    \/ \E t \in Threads : Signal(t)
    \/ \E t \in Threads : SpuriousWakeup(t)
    \/ \E t \in Threads : Reacquire(t)

SpecSync == InitSync /\ [][NextSync]_vars


\* Thread t owns the Mutex: it holds the pthread mutex and is not between
\* the pthread call and the update of the counter inside lock(), unlock()
\* or wait().
Owner(t) ==
    /\ mutex = t
    /\ thread[t].pc \notin {"post_assert", "post_increment",
                            "pthread_mutex_unlock", "pthread_cond_wait"}

\* The counter is 0 or 1, and 1 exactly while some thread owns the Mutex.
CounterIsOwnership ==
    /\ locked_count \in {0, 1}
    /\ (locked_count = 1) <=> (\E t \in Threads : Owner(t))

\* The counter is 0 while no thread holds the mutex, as it is while the
\* owner is blocked inside CondVar::wait(), and 1 once wait() has returned.
CounterAroundWait ==
    /\ mutex = NoThread => locked_count = 0
    /\ \A t \in Threads :
           (thread[t].call = "wait" /\ thread[t].pc = "idle"
            /\ thread[t].exc = "none")
               => locked_count = 1

\* A step of CondVar::wait() that tests a counter of 0 raises
\* InvalidOperation and leaves the counter as it is.
WaitOnUnlocked ==
    \A t \in Threads :
        (thread[t].call = "wait" /\ thread[t].pc = "pre_test"
         /\ locked_count = 0 /\ thread'[t] # thread[t])
            => /\ thread'[t].pc = "idle"
               /\ thread'[t].exc = "InvalidOperation"
               /\ locked_count' = locked_count

ShutdownTests == {"start", "shutdownWithUncaughtException",
                  "shutdownWithException"}

\* Command(SHUTDOWN, data::ConstElementPtr()): the command without argument.
ShutdownCommand == [id |-> "SHUTDOWN", arg |-> NULL]

\* What TestThread::wait() raises for a value of thread_throw_on_wait.
ThreadWaitRaises(throw_on_wait) ==
    CASE throw_on_wait = "THROW_UNCAUGHT_EX" -> "UncaughtException"
      [] throw_on_wait = "THROW_OTHER" -> "Unexpected"
      [] OTHER -> "none"

\* The catch clauses of the destructor: what still propagates of an exception
\* raised inside its try block.
destructorCatch_uncaughtOnly(exception) ==
    IF exception = "UncaughtException" THEN "none" ELSE exception

destructorCatch(exception) == "none"

\* A test begins; the test "start" first clears the flag of the builder.
StartTest(name) ==
    /\ test = NoTest
    /\ name \notin tests_done
    /\ test' = [name |-> name, pc |-> "begin"]
    /\ builder' = IF name = "start"
                  THEN [builder EXCEPT !.started = FALSE]
                  ELSE builder
    /\ thrown' = "none"
    /\ escaped' = "none"
    /\ UNCHANGED tests_done
    /\ UNCHANGED <<finder_vars, sync_vars>>

\* TestDataSrcClientsMgr mgr: the builder is constructed on the manager's
\* empty queue, fresh mutex and fresh condition variable and resets its
\* static members, and the thread runs the builder.
Construct ==
    /\ test.pc = "begin"
    /\ test' = [test EXCEPT !.pc = "constructed"]
    /\ builder' = [FakeBuilderReset EXCEPT !.started = TRUE]
    /\ UNCHANGED <<tests_done, thrown, escaped>>
    /\ UNCHANGED <<finder_vars, sync_vars>>

\* The shutdown tests tell the thread what to raise when it is waited for.
SetThrowOnWait ==
    /\ test.pc = "constructed"
    /\ test.name # "start"
    /\ test' = [test EXCEPT !.pc = "configured"]
    /\ builder' = [builder EXCEPT !.thread_throw_on_wait =
                       IF test.name = "shutdownWithUncaughtException"
                       THEN "THROW_UNCAUGHT_EX" ELSE "THROW_OTHER"]
    /\ UNCHANGED <<tests_done, thrown, escaped>>
    /\ UNCHANGED <<finder_vars, sync_vars>>

\* The manager goes out of scope.  Its destructor sends SHUTDOWN:
\* sendCommand() takes the lock of the queue,
DestructorLock ==
    /\ \/ test.pc = "constructed" /\ test.name = "start"
       \/ test.pc = "configured"
    /\ test' = [test EXCEPT !.pc = "locked"]
    /\ builder' = [builder EXCEPT !.lock_count = @ + 1]
    /\ UNCHANGED <<tests_done, thrown, escaped>>
    /\ UNCHANGED <<finder_vars, sync_vars>>

\* appends the command,
DestructorPush ==
    /\ test.pc = "locked"
    /\ test' = [test EXCEPT !.pc = "pushed"]
    /\ builder' = [builder EXCEPT !.command_queue =
                       Append(@, ShutdownCommand)]
    /\ UNCHANGED <<tests_done, thrown, escaped>>
    /\ UNCHANGED <<finder_vars, sync_vars>>

\* releases the lock
DestructorUnlock ==
    /\ test.pc = "pushed"
    /\ test' = [test EXCEPT !.pc = "unlocked"]
    /\ builder' = [builder EXCEPT !.unlock_count = @ + 1]
    /\ UNCHANGED <<tests_done, thrown, escaped>>
    /\ UNCHANGED <<finder_vars, sync_vars>>

\* and signals the condition variable.
DestructorSignal ==
    /\ test.pc = "unlocked"
    /\ test' = [test EXCEPT !.pc = "signalled"]
    /\ builder' = [builder EXCEPT !.signal_count = @ + 1]
    /\ UNCHANGED <<tests_done, thrown, escaped>>
    /\ UNCHANGED <<finder_vars, sync_vars>>

\* The destructor then waits for the builder thread; the wait may raise.
DestructorWait ==
    /\ test.pc = "signalled"
    /\ test' = [test EXCEPT !.pc = "waited"]
    /\ builder' = [builder EXCEPT !.thread_waited = TRUE]
    /\ thrown' = ThreadWaitRaises(builder.thread_throw_on_wait)
    /\ UNCHANGED <<tests_done, escaped>>
    /\ UNCHANGED <<finder_vars, sync_vars>>

\* The end of the try block and its catch clauses, then cleanup(); the
\* static members of the builder keep the values of the manager's members.
DestructorCatch ==
    /\ test.pc = "waited"
    /\ test' = [test EXCEPT !.pc = "destroyed"]
    /\ thrown' = "none"
    /\ escaped' = destructorCatch(thrown)
    /\ UNCHANGED <<tests_done, builder>>
    /\ UNCHANGED <<finder_vars, sync_vars>>

\* shutdownCheck() and the end of the test.
EndTest ==
    /\ test.pc = "destroyed"
    /\ test' = NoTest
    /\ tests_done' = tests_done \cup {test.name}
    /\ UNCHANGED <<builder, thrown, escaped>>
    /\ UNCHANGED <<finder_vars, sync_vars>>

InitShutdown ==
    /\ zone_data = NULL
    /\ pc = "idle"
    /\ query = NoQuery
    /\ found = NoResult
    /\ target = <<>>
    /\ nsec3 = NoNSEC3Result
    /\ additional = NoAdditionalCall
    /\ SyncConstructed
    /\ NoManager

NextShutdown ==
    \/ \E name \in ShutdownTests : StartTest(name)
    \/ Construct
    \/ SetThrowOnWait
    \/ DestructorLock
    \/ DestructorPush
    \/ DestructorUnlock
    \/ DestructorSignal
    \/ DestructorWait
    \/ DestructorCatch
    \/ EndTest

SpecShutdown == InitShutdown /\ [][NextShutdown]_vars

\* The manager exists and its destructor has not begun.
BeforeDestruction == test.pc \in {"constructed", "configured"}

\* The manager has been destroyed and no other one constructed since.
AfterDestruction == test.pc = "destroyed"

\* C21: a manager destroyed without an explicit shutdown has taken the lock
\* of the queue once, left SHUTDOWN without argument as the only command of
\* the queue, signalled the condition variable once and waited for the
\* thread, and the wait came last; before the destruction the queue is
\* empty, nothing was signalled and nothing waited for; no exception of the
\* wait leaves the destructor.
C21_ShutdownOnce ==
    /\ BeforeDestruction =>
           /\ builder.command_queue = <<>>
           /\ builder.signal_count = 0
           /\ ~builder.thread_waited
    /\ (test.pc # "none" /\ builder.thread_waited) =>
           /\ builder.lock_count = 1
           /\ builder.command_queue = <<ShutdownCommand>>
           /\ builder.signal_count = 1
    /\ AfterDestruction =>
           /\ builder.thread_waited
           /\ builder.lock_count = builder.unlock_count
    /\ test.pc \notin {"none", "begin"} =>
           /\ builder.lock_count <= 1
           /\ builder.signal_count <= 1
           /\ Len(builder.command_queue) <= 1
    /\ escaped = "none"

\* A manager whose thread raised an exception other than UncaughtException
\* when it was waited for has been destroyed, after an earlier test.
C21_Witness ==
    /\ AfterDestruction
    /\ test.name = "shutdownWithException"
    /\ builder.thread_throw_on_wait = "THROW_OTHER"
    /\ tests_done # {}

====
